---- MODULE Spec2Model ----
(***************************************************************************)
(* A model of open-lovable:                                                *)
(*   - the intent classifier analyzeEditIntent and its file resolvers      *)
(*     (lib/flutter-package-manager.ts, second half),                      *)
(*   - the template renderer replaceTemplateVariables and the generate     *)
(*     operations of the FlutterCodeGenerator                              *)
(*     (lib/flutter-code-generator.ts),                                    *)
(*   - the DartValidator (lib/dart-validator.ts),                          *)
(*   - the GitHubAutoSync (lib/github-auto-sync.ts),                       *)
(*   - findComponentFiles and addAsset of the package manager,             *)
(*   - the GitHubIntegration and GitHubSync (lib/github-sync.ts),          *)
(*   - setProjectType of the ProjectContextProvider                        *)
(*     (contexts/ProjectContext.tsx).                                      *)
(* Strings are TLA+ strings; a character is a string of length one.        *)
(* Hangul syllables cannot be written in a TLA+ string, so the few the     *)
(* source names are written with the reserved characters listed at         *)
(* HangulChars; no prompt given to analyzeEditIntent uses those characters *)
(* for anything else.                                                      *)
(***************************************************************************)
EXTENDS Integers, Sequences, FiniteSets, Bags, TLC

(***************************************************************************)
(* JavaScript string primitives                                            *)
(***************************************************************************)
CharAt(s, i) == SubSeq(s, i, i)

\* 화 면 스 크 린 페 이 지 만 들 어 생 성 추 가, in that order
HangulChars == {"!", "@", "#", "$", "%", "^", "&", "*", "(", ")", "-", "+", "=", "<", ">"}

LowerOf ==
    ("A" :> "a") @@ ("B" :> "b") @@ ("C" :> "c") @@ ("D" :> "d") @@ ("E" :> "e") @@
    ("F" :> "f") @@ ("G" :> "g") @@ ("H" :> "h") @@ ("I" :> "i") @@ ("J" :> "j") @@
    ("K" :> "k") @@ ("L" :> "l") @@ ("M" :> "m") @@ ("N" :> "n") @@ ("O" :> "o") @@
    ("P" :> "p") @@ ("Q" :> "q") @@ ("R" :> "r") @@ ("S" :> "s") @@ ("T" :> "t") @@
    ("U" :> "u") @@ ("V" :> "v") @@ ("W" :> "w") @@ ("X" :> "x") @@ ("Y" :> "y") @@
    ("Z" :> "z")
LowerChar(c) == IF c \in DOMAIN LowerOf THEN LowerOf[c] ELSE c

\* \w of a JavaScript regular expression: [A-Za-z0-9_]
WordChars ==
    DOMAIN LowerOf \cup {LowerOf[c] : c \in DOMAIN LowerOf}
    \cup {"0", "1", "2", "3", "4", "5", "6", "7", "8", "9", "_"}
IsWordChar(c) == c \in WordChars
\* \s, as far as the model's strings go
IsSpaceChar(c) == c \in {" ", "\t", "\n"}
IsHangul(c) == c \in HangulChars

RECURSIVE toLowerCase(_)
toLowerCase(s) ==
    IF Len(s) = 0 THEN "" ELSE LowerChar(CharAt(s, 1)) \o toLowerCase(Tail(s))

\* s.includes(t)
includes(s, t) ==
    \E i \in 1..(Len(s) - Len(t) + 1) : SubSeq(s, i, i + Len(t) - 1) = t
\* s.endsWith(t)
endsWith(s, t) ==
    /\ Len(t) <= Len(s)
    /\ SubSeq(s, Len(s) - Len(t) + 1, Len(s)) = t
startsWithAt(s, t, i) ==
    /\ i + Len(t) - 1 <= Len(s)
    /\ SubSeq(s, i, i + Len(t) - 1) = t

\* path.split('/').pop(): what follows the last '/'
RECURSIVE lastSegment(_)
lastSegment(path) ==
    IF ~includes(path, "/") THEN path
    ELSE lastSegment(SubSeq(path, (CHOOSE i \in 1..Len(path) : CharAt(path, i) = "/"
                                      /\ \A j \in 1..(i-1) : CharAt(path, j) # "/") + 1, Len(path)))

\* prompt.split(' ').length: one more than the number of space characters
splitLength(s) == 1 + Cardinality({i \in 1..Len(s) : CharAt(s, i) = " "})

\* the end (exclusive) of the maximal run of \w characters that starts at i
RECURSIVE wordRunEnd(_, _)
wordRunEnd(s, i) ==
    IF i <= Len(s) /\ IsWordChar(CharAt(s, i)) THEN wordRunEnd(s, i + 1) ELSE i

\* s.match(/\b\w+\b/g): the maximal runs of \w characters, left to right
RECURSIVE wordRunsFrom(_, _)
wordRunsFrom(s, i) ==
    IF i > Len(s) THEN << >>
    ELSE IF IsWordChar(CharAt(s, i))
         THEN <<SubSeq(s, i, wordRunEnd(s, i) - 1)>> \o wordRunsFrom(s, wordRunEnd(s, i))
         ELSE wordRunsFrom(s, i + 1)
wordRuns(s) == wordRunsFrom(s, 1)

\* the number of maximal runs of non-whitespace characters
whitespaceTokens(s) ==
    Cardinality({i \in 1..Len(s) : /\ ~IsSpaceChar(CharAt(s, i))
                                   /\ (i = 1 \/ IsSpaceChar(CharAt(s, i - 1)))})

Range(f) == {f[i] : i \in DOMAIN f}
RECURSIVE SelectSeqOf(_, _)
SelectSeqOf(q, S) ==
    IF q = << >> THEN << >>
    ELSE (IF Head(q) \in S THEN <<Head(q)>> ELSE << >>) \o SelectSeqOf(Tail(q), S)
\* [...new Set(q)]: the first occurrence of every element, in order
RECURSIVE dedupe(_)
dedupe(q) ==
    IF q = << >> THEN << >>
    ELSE LET r == dedupe(SubSeq(q, 1, Len(q) - 1))
         IN IF q[Len(q)] \in Range(r) THEN r ELSE Append(r, q[Len(q)])

(***************************************************************************)
(* Regular expressions.  A regular expression is a sequence of nodes;      *)
(* MatchSeq gives every position at which a match that starts at i can     *)
(* end, so test() is true exactly when a backtracking matcher finds a      *)
(* match (the expressions of the source have no back-references).          *)
(***************************************************************************)
Lit(str)  == [t |-> "lit", s |-> str]
Sp        == [t |-> "plus", c |-> "s"]      \* \s+
SpStar    == [t |-> "star", c |-> "s"]      \* \s*
SpOpt     == [t |-> "optc", c |-> "s"]      \* \s?
W         == [t |-> "plus", c |-> "w"]      \* \w+
AnyStar   == [t |-> "star", c |-> "."]      \* .*
HangulPlus == [t |-> "plus", c |-> "h"]     \* [가-힯]+
Opt(re)   == [t |-> "opt", r |-> re]        \* (re)?
Alt(res)  == [t |-> "alt", rs |-> res]      \* (re1|re2|...)
AltLit(strs) == [t |-> "alt", rs |-> [k \in DOMAIN strs |-> <<Lit(strs[k])>>]]
NotAhead(res) == [t |-> "nla", rs |-> res]  \* (?!re1|re2|...)
EndOfInput == [t |-> "end"]                 \* $

InClass(c, ch) ==
    CASE c = "s" -> IsSpaceChar(ch)
      [] c = "w" -> IsWordChar(ch)
      [] c = "h" -> IsHangul(ch)
      [] c = "." -> ch # "\n"

RECURSIVE classRunEnd(_, _, _)
classRunEnd(c, s, i) ==
    IF i <= Len(s) /\ InClass(c, CharAt(s, i)) THEN classRunEnd(c, s, i + 1) ELSE i

RECURSIVE MatchSeq(_, _, _, _)
RECURSIVE MatchNode(_, _, _)
MatchNode(n, s, i) ==
    CASE n.t = "lit"  -> IF startsWithAt(s, n.s, i) THEN {i + Len(n.s)} ELSE {}
      [] n.t = "plus" -> (i + 1)..classRunEnd(n.c, s, i)
      [] n.t = "star" -> i..classRunEnd(n.c, s, i)
      [] n.t = "optc" -> i..(IF classRunEnd(n.c, s, i) > i THEN i + 1 ELSE i)
      [] n.t = "opt"  -> {i} \cup MatchSeq(n.r, 1, s, i)
      [] n.t = "alt"  -> UNION {MatchSeq(n.rs[k], 1, s, i) : k \in DOMAIN n.rs}
      [] n.t = "end"  -> IF i = Len(s) + 1 THEN {i} ELSE {}
      [] n.t = "nla"  -> IF \E k \in DOMAIN n.rs : MatchSeq(n.rs[k], 1, s, i) # {}
                         THEN {} ELSE {i}
      [] n.t = "wb"   -> IF (i > 1 /\ IsWordChar(CharAt(s, i - 1)))
                            # (i <= Len(s) /\ IsWordChar(CharAt(s, i)))
                         THEN {i} ELSE {}
MatchSeq(re, k, s, i) ==
    IF k > Len(re) THEN {i}
    ELSE UNION {MatchSeq(re, k + 1, s, j) : j \in MatchNode(re[k], s, i)}

\* regex.test(s) for a regular expression with the i flag and no g flag:
\* every literal of the tables below is lower case, so ignoring case is
\* matching the lower-cased subject
MatchesAnywhere(re, subject) ==
    \E i \in 1..(Len(subject) + 1) : MatchSeq(re, 1, subject, i) # {}
RegexTest(re, s) == MatchesAnywhere(re, toLowerCase(s))


(***************************************************************************)
(* The intent patterns of analyzeEditIntent, in the order of the source.   *)
(***************************************************************************)
TheOpt == Opt(<<Lit("the"), Sp>>)           \* (the\s+)?
AOpt   == Opt(<<Lit("a"), Sp>>)             \* (a\s+)?

CreateFlutterWidgetPatterns == <<
    <<Lit("create"), Sp, AOpt, W, Sp, AltLit(<<"widget", "screen">>)>>,
    <<Lit("build"), Sp, AOpt, W, Sp, AltLit(<<"widget", "screen">>)>>,
    <<Lit("make"), Sp, AOpt, W, Sp, AltLit(<<"widget", "screen">>)>>,
    <<Lit("add"), Sp, AOpt, Lit("new"), Sp, W, Sp, AltLit(<<"widget", "screen">>)>>,
    <<Lit("implement"), Sp, AOpt, W, Sp, AltLit(<<"widget", "screen">>)>> >>

CreateFlutterScreenPatterns == <<
    <<Lit("create"), Sp, AOpt, W, Sp, AltLit(<<"screen", "page">>)>>,
    <<Lit("build"), Sp, AOpt, W, Sp, AltLit(<<"screen", "page">>)>>,
    <<Lit("make"), Sp, AOpt, W, Sp, AltLit(<<"screen", "page">>)>>,
    <<Lit("new"), Sp, AltLit(<<"screen", "page">>)>>,
    <<Lit("add"), Sp, AOpt, Lit("new"), Sp, Opt(<<W, Sp>>), AltLit(<<"screen", "page">>)>>,
    \* ([가-힯]+)\s*(화면|스크린|페이지)\s*(만들어|생성|추가)
    <<HangulPlus, SpStar, AltLit(<<"!@", "#$%", "^&*">>), SpStar,
      AltLit(<<"()-", "+=", "<>">>)>>,
    \* (화면|스크린|페이지).*(만들어|생성|추가)
    <<AltLit(<<"!@", "#$%", "^&*">>), AnyStar, AltLit(<<"()-", "+=", "<>">>)>> >>

UpdateFlutterWidgetPatterns == <<
    <<Lit("update"), Sp, TheOpt, W, Sp, Lit("widget")>>,
    <<Lit("change"), Sp, TheOpt, W, Sp, Lit("widget")>>,
    <<Lit("modify"), Sp, TheOpt, W, Sp, Lit("widget")>>,
    <<Lit("edit"), Sp, TheOpt, W, Sp, Lit("widget")>> >>

AddFlutterNavigationPatterns == <<
    <<Lit("add"), Sp, AOpt, Lit("app"), SpOpt, Lit("bar")>>,
    <<Lit("implement"), Sp, Lit("app"), SpOpt, Lit("bar")>>,
    <<Lit("create"), Sp, Lit("app"), SpOpt, Lit("bar")>>,
    <<Lit("add"), Sp, AOpt, Lit("bottom"), Sp, Lit("navigation")>>,
    <<Lit("implement"), Sp, Lit("bottom"), Sp, Lit("navigation")>>,
    <<Lit("add"), Sp, AOpt, Lit("floating"), Sp, Lit("action"), Sp, Lit("button")>>,
    <<Lit("add"), Sp, AOpt, Lit("fab")>>,
    <<Lit("implement"), Sp, Lit("navigation")>>,
    <<Lit("add"), Sp, Lit("navigation")>>,
    <<Lit("add"), Sp, Lit("tab"), SpOpt, Lit("bar")>>,
    <<Lit("implement"), Sp, Lit("tab"), SpOpt, Lit("bar")>> >>

AddFlutterPackagePatterns == <<
    <<Lit("add"), Sp, Lit("flutter"), Sp, Opt(<<W, Sp>>), AltLit(<<"package", "dependency">>)>>,
    <<Lit("install"), Sp, Lit("flutter"), Sp, Opt(<<W, Sp>>), AltLit(<<"package", "dependency">>)>>,
    <<Lit("use"), Sp, Lit("flutter"), Sp, AltLit(<<"package", "library">>)>>,
    <<Lit("add"), Sp, W, Sp, Lit("flutter"), Sp, AltLit(<<"package", "library">>)>>,
    <<Lit("flutter"), Sp, Lit("pub"), Sp, Lit("add")>>,
    <<Lit("add"), Sp, W, Sp, AltLit(<<"package", "dependency">>)>>,
    <<Lit("install"), Sp, W, Sp, AltLit(<<"package", "dependency">>)>> >>

UpdateComponentPatterns == <<
    <<Lit("update"), Sp, TheOpt, W, Sp, AltLit(<<"component", "section", "page">>)>>,
    <<Lit("change"), Sp, TheOpt, W>>,
    <<Lit("modify"), Sp, TheOpt, W>>,
    <<Lit("edit"), Sp, TheOpt, W>>,
    <<Lit("fix"), Sp, TheOpt, W, Sp, AltLit(<<"styling", "style", "css", "layout">>)>>,
    <<Lit("remove"), Sp, AnyStar, Sp, AltLit(<<"button", "link", "text", "element", "section">>)>>,
    <<Lit("delete"), Sp, AnyStar, Sp, AltLit(<<"button", "link", "text", "element", "section">>)>>,
    <<Lit("hide"), Sp, AnyStar, Sp, AltLit(<<"button", "link", "text", "element", "section">>)>> >>

AddFeaturePatterns == <<
    <<Lit("add"), Sp, AOpt, Lit("new"), Sp, W, Sp,
      AltLit(<<"page", "section", "feature", "component">>)>>,
    <<Lit("create"), Sp, AOpt, W, Sp, AltLit(<<"page", "section", "feature", "component">>)>>,
    <<Lit("implement"), Sp, AOpt, W, Sp, AltLit(<<"page", "section", "feature">>)>>,
    <<Lit("build"), Sp, AOpt, W, Sp, AltLit(<<"page", "section", "feature">>)>>,
    <<Lit("add"), Sp, W, Sp, Lit("to"), Sp, TheOpt, W>>,
    <<Lit("add"), Sp, AOpt, W, Sp, AltLit(<<"component", "section">>)>>,
    <<Lit("include"), Sp, AOpt, W>> >>

FixIssuePatterns == <<
    \* fix\s+(the\s+)?(\w+|\w+\s+\w+)(?!\s+styling|\s+style)
    <<Lit("fix"), Sp, TheOpt, Alt(<< <<W>>, <<W, Sp, W>> >>),
      NotAhead(<< <<Sp, Lit("styling")>>, <<Sp, Lit("style")>> >>)>>,
    <<Lit("resolve"), Sp, TheOpt, Lit("error")>>,
    <<Lit("debug"), Sp, TheOpt, W>>,
    <<Lit("repair"), Sp, TheOpt, W>> >>

UpdateStylePatterns == <<
    <<Lit("change"), Sp, TheOpt, AltLit(<<"color", "theme", "style", "styling", "css">>)>>,
    <<Lit("update"), Sp, TheOpt, AltLit(<<"color", "theme", "style", "styling", "css">>)>>,
    <<Lit("make"), Sp, Lit("it"), Sp, AltLit(<<"dark", "light", "blue", "red", "green">>)>>,
    <<Lit("style"), Sp, TheOpt, W>> >>

RefactorPatterns == <<
    <<Lit("refactor"), Sp, TheOpt, W>>,
    <<Lit("clean"), Sp, Lit("up"), Sp, TheOpt, Lit("code")>>,
    <<Lit("reorganize"), Sp, TheOpt, W>>,
    <<Lit("optimize"), Sp, TheOpt, W>> >>

FullRebuildPatterns == <<
    <<Lit("start"), Sp, Lit("over")>>,
    <<Lit("recreate"), Sp, Lit("everything")>>,
    <<Lit("rebuild"), Sp, TheOpt, Lit("app")>>,
    <<Lit("new"), Sp, Lit("app")>>,
    <<Lit("from"), Sp, Lit("scratch")>> >>

AddDependencyPatterns == <<
    <<Lit("install"), Sp, W>>,
    <<Lit("add"), Sp, W, Sp, AltLit(<<"package", "library", "dependency">>)>>,
    <<Lit("use"), Sp, W, Sp, AltLit(<<"library", "framework">>)>> >>

\* the table with the screen group moved in front of the widget group
patternsScreenFirst == <<
    [patterns |-> CreateFlutterScreenPatterns, type |-> "CREATE_FLUTTER_SCREEN",
     fileResolver |-> "findFlutterScreenInsertionPoints"],
    [patterns |-> CreateFlutterWidgetPatterns, type |-> "CREATE_FLUTTER_WIDGET",
     fileResolver |-> "findFlutterInsertionPoints"],
    [patterns |-> UpdateFlutterWidgetPatterns, type |-> "UPDATE_FLUTTER_WIDGET",
     fileResolver |-> "findFlutterWidgetFiles"],
    [patterns |-> AddFlutterNavigationPatterns, type |-> "ADD_FLUTTER_NAVIGATION",
     fileResolver |-> "findFlutterNavigationFiles"],
    [patterns |-> AddFlutterPackagePatterns, type |-> "ADD_FLUTTER_PACKAGE",
     fileResolver |-> "findFlutterPackageFiles"],
    [patterns |-> UpdateComponentPatterns, type |-> "UPDATE_COMPONENT",
     fileResolver |-> "findComponentByContent"],
    [patterns |-> AddFeaturePatterns, type |-> "ADD_FEATURE",
     fileResolver |-> "findFeatureInsertionPoints"],
    [patterns |-> FixIssuePatterns, type |-> "FIX_ISSUE",
     fileResolver |-> "findProblemFiles"],
    [patterns |-> UpdateStylePatterns, type |-> "UPDATE_STYLE",
     fileResolver |-> "findStyleFiles"],
    [patterns |-> RefactorPatterns, type |-> "REFACTOR",
     fileResolver |-> "findRefactorTargets"],
    [patterns |-> FullRebuildPatterns, type |-> "FULL_REBUILD",
     fileResolver |-> "entryPoint"],
    [patterns |-> AddDependencyPatterns, type |-> "ADD_DEPENDENCY",
     fileResolver |-> "findPackageFiles"] >>

\* the patterns array: each group's regular expressions, EditType and the
\* name of its fileResolver
patterns == <<
    [patterns |-> CreateFlutterWidgetPatterns, type |-> "CREATE_FLUTTER_WIDGET",
     fileResolver |-> "findFlutterInsertionPoints"],
    [patterns |-> CreateFlutterScreenPatterns, type |-> "CREATE_FLUTTER_SCREEN",
     fileResolver |-> "findFlutterScreenInsertionPoints"],
    [patterns |-> UpdateFlutterWidgetPatterns, type |-> "UPDATE_FLUTTER_WIDGET",
     fileResolver |-> "findFlutterWidgetFiles"],
    [patterns |-> AddFlutterNavigationPatterns, type |-> "ADD_FLUTTER_NAVIGATION",
     fileResolver |-> "findFlutterNavigationFiles"],
    [patterns |-> AddFlutterPackagePatterns, type |-> "ADD_FLUTTER_PACKAGE",
     fileResolver |-> "findFlutterPackageFiles"],
    [patterns |-> UpdateComponentPatterns, type |-> "UPDATE_COMPONENT",
     fileResolver |-> "findComponentByContent"],
    [patterns |-> AddFeaturePatterns, type |-> "ADD_FEATURE",
     fileResolver |-> "findFeatureInsertionPoints"],
    [patterns |-> FixIssuePatterns, type |-> "FIX_ISSUE",
     fileResolver |-> "findProblemFiles"],
    [patterns |-> UpdateStylePatterns, type |-> "UPDATE_STYLE",
     fileResolver |-> "findStyleFiles"],
    [patterns |-> RefactorPatterns, type |-> "REFACTOR",
     fileResolver |-> "findRefactorTargets"],
    [patterns |-> FullRebuildPatterns, type |-> "FULL_REBUILD",
     fileResolver |-> "entryPoint"],
    [patterns |-> AddDependencyPatterns, type |-> "ADD_DEPENDENCY",
     fileResolver |-> "findPackageFiles"] >>

(***************************************************************************)
(* File manifests.  files is the sequence of the entries of manifest.files *)
(* in Object.entries order; componentName and widgetName are "" where the  *)
(* file has no componentInfo / flutterInfo.                                *)
(***************************************************************************)
FileInfo(p, c, lm, cn, wn) ==
    [path |-> p, content |-> c, lastModified |-> lm, componentName |-> cn, widgetName |-> wn]

FilePool == <<
    FileInfo("src/App.jsx", "<Route><Header /></Route>", 5, "App", ""),
    FileInfo("src/components/Header.jsx", "<nav>Sign In</nav>", 7, "Header", ""),
    FileInfo("src/index.css", "body { color: red }", 2, "", ""),
    FileInfo("package.json", "{}", 1, "", ""),
    FileInfo("lib/main.dart", "void main() {}", 6, "", "MyApp"),
    FileInfo("lib/widgets/login_button.dart", "class LoginButton {}", 7, "", "LoginButton"),
    FileInfo("pubspec.yaml", "name: app", 3, "", "") >>

MaxFiles == 2

Paths(m) == [i \in DOMAIN m.files |-> m.files[i].path]

\* the manifest holding the files of the pool picked by S, in pool order
ManifestOf(S, entry) ==
    LET fs == SelectSeqOf(FilePool, {FilePool[i] : i \in S})
    IN [files |-> fs,
        entryPoint |-> entry,
        styleFiles |-> SelectSeq([i \in DOMAIN fs |-> fs[i].path],
                                 LAMBDA p : endsWith(p, ".css"))]

EntryPoints == {"src/App.jsx", "lib/main.dart"}

\* every manifest of at most MaxFiles files of the pool whose entry point is
\* one of its files
ManifestChoices ==
    {c \in (SUBSET (DOMAIN FilePool)) \X (DOMAIN FilePool) :
        /\ Cardinality(c[1]) <= MaxFiles
        /\ c[2] \in c[1]
        /\ FilePool[c[2]].path \in EntryPoints}
Manifests == {ManifestOf(c[1], FilePool[c[2]].path) : c \in ManifestChoices}

(***************************************************************************)
(* File resolvers                                                          *)
(***************************************************************************)
StopWords == {"the", "a", "an", "in", "on", "to", "from", "update", "change",
              "modify", "edit", "fix", "make"}

extractComponentNames(prompt) ==
    SelectSeq(wordRuns(toLowerCase(prompt)),
              LAMBDA w : w \notin StopWords /\ Len(w) > 2)

uiElements == <<"header", "footer", "nav", "sidebar", "button", "card", "modal", "hero",
                "banner", "about", "services", "features", "testimonials", "gallery",
                "contact", "team", "pricing">>

fileNameOf(path) == toLowerCase(lastSegment(path))

\* the first element of q, as a list of at most one path
FirstOf(q) == IF q = << >> THEN << >> ELSE <<q[1]>>

\* findComponentFiles returning every file of its first pass
findComponentFilesAll(prompt, manifest) ==
    LET componentWords == extractComponentNames(prompt)
        files == SelectSeq(manifest.files,
                     LAMBDA f : \E k \in DOMAIN componentWords :
                         \/ includes(fileNameOf(f.path), componentWords[k])
                         \/ includes(toLowerCase(f.componentName), componentWords[k]))
    IN IF files # << >> THEN [i \in DOMAIN files |-> files[i].path]
       ELSE <<manifest.entryPoint>>

findComponentFiles(prompt, manifest) ==
    LET lowerPrompt == toLowerCase(prompt)
        componentWords == extractComponentNames(prompt)
        \* first pass: file name or component name contains a word
        files == SelectSeq(manifest.files,
                     LAMBDA f : \E k \in DOMAIN componentWords :
                         \/ includes(fileNameOf(f.path), componentWords[k])
                         \/ includes(toLowerCase(f.componentName), componentWords[k]))
        \* the file returned for a UI element: exact match before partial match
        exact(el) == SelectSeq(manifest.files,
                         LAMBDA f : \/ includes(fileNameOf(f.path), el \o ".")
                                    \/ fileNameOf(f.path) = el)
        partial(el) == SelectSeq(manifest.files, LAMBDA f : includes(fileNameOf(f.path), el))
        hits == SelectSeq(uiElements,
                     LAMBDA el : includes(lowerPrompt, el) /\ partial(el) # << >>)
    IN IF files # << >> THEN <<files[1].path>>
       ELSE IF hits # << >>
            THEN (IF exact(hits[1]) # << >> THEN <<exact(hits[1])[1].path>>
                  ELSE <<partial(hits[1])[1].path>>)
            ELSE <<manifest.entryPoint>>

\* prompt.match(/(?:in|to|on|inside)\s+(?:the\s+)?(\w+)/i): the captured word
\* of the leftmost match, << >> when there is no match
LocationRegex == <<AltLit(<<"in", "to", "on", "inside">>), Sp, TheOpt, W>>
locationMatch(prompt) ==
    LET max(S) == CHOOSE a \in S : \A b \in S : a >= b
        min(S) == CHOOSE a \in S : \A b \in S : a <= b
        word(w) == <<SubSeq(prompt, w, wordRunEnd(prompt, w) - 1)>>
        \* (?:the\s+)? is greedy: taken whenever a word follows it
        afterThe(s, j) == {k \in MatchSeq(<<Lit("the"), Sp>>, 1, s, j) :
                              MatchSeq(<<W>>, 1, s, k) # {}}
        wordStart(j, thes) == IF thes # {} THEN max(thes) ELSE j
        fromPrep(s, j) == word(wordStart(j, afterThe(s, j)))
        \* where the word can start: after the preposition and \s+
        afterPrep(s, i) == {j \in MatchSeq(<<LocationRegex[1], Sp>>, 1, s, i) :
                               MatchSeq(<<TheOpt, W>>, 1, s, j) # {}}
        fromStarts(s, starts) ==
            IF starts = {} THEN << >> ELSE fromPrep(s, max(afterPrep(s, min(starts))))
        matchIn(s) ==
            fromStarts(s, {i \in 1..Len(s) : MatchSeq(LocationRegex, 1, s, i) # {}})
    IN matchIn(toLowerCase(prompt))

findFeatureInsertionPoints(prompt, manifest) ==
    LET routerFiles == SelectSeq(manifest.files,
                           LAMBDA f : \/ includes(f.content, "Route")
                                      \/ includes(f.content, "createBrowserRouter")
                                      \/ includes(f.path, "router")
                                      \/ includes(f.path, "routes"))
        pagePaths(lowerPrompt) ==
            IF includes(lowerPrompt, "page")
            THEN [i \in DOMAIN routerFiles |-> routerFiles[i].path]
                 \o (IF manifest.entryPoint # "" THEN <<manifest.entryPoint>> ELSE << >>)
            ELSE << >>
        \* the files of the words of the prompt, entry point fallbacks left out
        RECURSIVE related(_)
        related(componentWords) ==
            IF componentWords = << >> THEN << >>
            ELSE LET notEntry(rf) == IF rf[1] # manifest.entryPoint THEN rf ELSE << >>
                 IN related(SubSeq(componentWords, 1, Len(componentWords) - 1))
                    \o notEntry(findComponentFiles(componentWords[Len(componentWords)],
                                                   manifest))
        orEntry(mentioned) == IF mentioned = << >> THEN <<manifest.entryPoint>> ELSE mentioned
        files(lowerPrompt, pageFiles, location) ==
            IF \/ includes(lowerPrompt, "component") \/ includes(lowerPrompt, "section")
               \/ includes(lowerPrompt, "add") \/ includes(lowerPrompt, "create")
            THEN IF location # << >>
                 THEN pageFiles \o findComponentFiles(location[1], manifest)
                 ELSE orEntry(pageFiles \o related(extractComponentNames(prompt)))
            ELSE pageFiles
        withPages(lowerPrompt) ==
            files(lowerPrompt, pagePaths(lowerPrompt), locationMatch(prompt))
    IN dedupe(withPages(toLowerCase(prompt)))

\* the files by lastModified, newest first; Array.prototype.sort is stable
RECURSIVE sortByLastModified(_)
sortByLastModified(fs) ==
    IF fs = << >> THEN << >>
    ELSE LET rest == sortByLastModified(Tail(fs))
             before == SelectSeq(rest, LAMBDA f : f.lastModified > Head(fs).lastModified)
             after == SelectSeq(rest, LAMBDA f : f.lastModified <= Head(fs).lastModified)
         IN before \o <<Head(fs)>> \o after

RecentFilesLimit == 5

\* /error|bug|issue|problem|broken|not working/i
ProblemRegex == <<AltLit(<<"error", "bug", "issue", "problem", "broken", "not working">>)>>

findProblemFiles(prompt, manifest) ==
    LET sortedFiles == sortByLastModified(manifest.files)
        newest == SubSeq(sortedFiles, 1,
                         IF Len(sortedFiles) < RecentFilesLimit THEN Len(sortedFiles)
                         ELSE RecentFilesLimit)
        recent == IF RegexTest(ProblemRegex, prompt)
                  THEN [i \in DOMAIN newest |-> newest[i].path]
                  ELSE << >>
    IN dedupe(recent \o findComponentFiles(prompt, manifest))

findStyleFiles(prompt, manifest) ==
    LET tailwind == SelectSeq(Paths(manifest), LAMBDA p : includes(p, "tailwind.config"))
    IN manifest.styleFiles \o FirstOf(tailwind) \o findComponentFiles(prompt, manifest)

findRefactorTargets(prompt, manifest) == findComponentFiles(prompt, manifest)

findPackageFiles(manifest) ==
    SelectSeq(Paths(manifest),
              LAMBDA p : \/ endsWith(p, "package.json")
                         \/ endsWith(p, "vite.config.js")
                         \/ endsWith(p, "tsconfig.json"))

\* the elements of a set of numbers, largest first
RECURSIVE descending(_)
descending(S) ==
    IF S = {} THEN << >>
    ELSE LET m == CHOOSE a \in S : \A b \in S : a >= b
         IN <<m>> \o descending(S \ {m})

IsQuote(c) == c \in {"\"", "'"}
RECURSIVE nonQuoteRunEnd(_, _)
nonQuoteRunEnd(s, i) ==
    IF i <= Len(s) /\ ~IsQuote(CharAt(s, i)) THEN nonQuoteRunEnd(s, i + 1) ELSE i

\* prompt.match(/["']([^"']+)["']/g) with the quotes stripped
RECURSIVE quotedStringsFrom(_, _)
quotedStringsFrom(s, i) ==
    IF i > Len(s) THEN << >>
    ELSE LET e == nonQuoteRunEnd(s, i + 1)
         IN IF IsQuote(CharAt(s, i)) /\ e > i + 1 /\ e <= Len(s)
            THEN <<SubSeq(s, i + 1, e - 1)>> \o quotedStringsFrom(s, e + 1)
            ELSE quotedStringsFrom(s, i + 1)
quotedStrings(prompt) == quotedStringsFrom(prompt, 1)

\* s.trim()
RECURSIVE trim(_)
trim(s) ==
    IF Len(s) = 0 THEN s
    ELSE IF IsSpaceChar(CharAt(s, 1)) THEN trim(Tail(s))
    ELSE IF IsSpaceChar(CharAt(s, Len(s))) THEN trim(SubSeq(s, 1, Len(s) - 1))
    ELSE s

\* (?:remove|delete|hide)\s+(?:the\s+)?(.+?)(?:\s+button|\s+link|\s+text|\s+element|\s+section|$)
ActionVerb == AltLit(<<"remove", "delete", "hide">>)
ActionEnd == Alt(<< <<Sp, Lit("button")>>, <<Sp, Lit("link")>>, <<Sp, Lit("text")>>,
                    <<Sp, Lit("element")>>, <<Sp, Lit("section")>>, <<EndOfInput>> >>)
\* the trimmed capture of the first match, << >> when there is no match:
\* \s+ and (?:the\s+)? are greedy and give characters back only when the
\* rest fails, (.+?) is lazy and stops at the first place ActionEnd matches
actionMatch(prompt) ==
    LET min(S) == CHOOSE a \in S : \A b \in S : a <= b
        captureEnds(s, p) == {q \in (p + 1)..(Len(s) + 1) :
                                 /\ \A k \in p..(q - 1) : CharAt(s, k) # "\n"
                                 /\ MatchNode(ActionEnd, s, q) # {}}
        \* where the capture may start after the verb ends at v, most preferred first
        RECURSIVE starts(_, _)
        starts(s, js) ==
            IF js = << >> THEN << >>
            ELSE descending(MatchSeq(<<Lit("the"), Sp>>, 1, s, Head(js)))
                 \o <<Head(js)>> \o starts(s, Tail(js))
        afterVerb(s, v) ==
            SelectSeq(starts(s, descending(MatchNode(Sp, s, v))),
                      LAMBDA p : captureEnds(s, p) # {})
        candidates(s, i) == afterVerb(s, CHOOSE e \in MatchNode(ActionVerb, s, i) : TRUE)
        capture(s, p) == <<trim(SubSeq(prompt, p, min(captureEnds(s, p)) - 1))>>
        fromFound(s, found) ==
            IF found = {} THEN << >> ELSE capture(s, candidates(s, min(found))[1])
        matchIn(s) ==
            fromFound(s, {i \in 1..Len(s) : /\ MatchNode(ActionVerb, s, i) # {}
                                            /\ candidates(s, i) # << >>})
    IN matchIn(toLowerCase(prompt))

findComponentByContent(prompt, manifest) ==
    LET containing(searchTerms) ==
            SelectSeq(manifest.files,
                      LAMBDA f : /\ includes(f.path, ".jsx") \/ includes(f.path, ".tsx")
                                 /\ \E k \in DOMAIN searchTerms :
                                        includes(toLowerCase(f.content),
                                                 toLowerCase(searchTerms[k])))
        firstOr(files) ==
            IF files = << >> THEN findComponentFiles(prompt, manifest) ELSE <<files[1].path>>
    IN firstOr(containing(quotedStrings(prompt) \o actionMatch(prompt)))

findFlutterInsertionPoints(prompt, manifest) ==
    LET flutterFiles == SelectSeq(Paths(manifest),
                            LAMBDA p : /\ endsWith(p, ".dart")
                                       /\ includes(p, "lib/") \/ includes(p, "widgets/"))
        mainFile == SelectSeq(flutterFiles, LAMBDA p : includes(p, "main.dart"))
    IN IF flutterFiles # << >>
       THEN (IF mainFile # << >> THEN <<mainFile[1]>> ELSE <<flutterFiles[1]>>)
       ELSE <<manifest.entryPoint>>

findFlutterScreenInsertionPoints(prompt, manifest) ==
    LET screenFiles == SelectSeq(Paths(manifest),
                           LAMBDA p : /\ endsWith(p, ".dart")
                                      /\ \/ includes(p, "screens/") \/ includes(p, "pages/")
                                         \/ includes(p, "lib/"))
        mainFile == SelectSeq(screenFiles, LAMBDA p : includes(p, "main.dart"))
        appFile == SelectSeq(screenFiles, LAMBDA p : includes(p, "app.dart"))
    IN IF mainFile # << >> THEN <<mainFile[1]>>
       ELSE IF appFile # << >> THEN <<appFile[1]>>
       ELSE <<manifest.entryPoint>>

FlutterStopWords == StopWords \cup {"create", "build", "widget", "screen"}
flutterKeywords == <<"appbar", "scaffold", "container", "column", "row", "button", "card",
                     "list", "fab">>
flutterElements == <<"button", "card", "list", "container", "column", "row", "scaffold">>

extractFlutterWidgetNames(prompt) ==
    SelectSeq(wordRuns(toLowerCase(prompt)),
              LAMBDA w : w \notin FlutterStopWords /\ Len(w) > 2)
    \o SelectSeq(flutterKeywords, LAMBDA k : includes(toLowerCase(prompt), k))

findFlutterWidgetFiles(prompt, manifest) ==
    LET lowerPrompt == toLowerCase(prompt)
        widgetWords == extractFlutterWidgetNames(prompt)
        dartFiles == SelectSeq(manifest.files, LAMBDA f : endsWith(f.path, ".dart"))
        files == SelectSeq(dartFiles,
                     LAMBDA f : \E k \in DOMAIN widgetWords :
                         \/ includes(fileNameOf(f.path), toLowerCase(widgetWords[k]))
                         \/ /\ f.widgetName # ""
                            /\ includes(toLowerCase(f.widgetName), toLowerCase(widgetWords[k])))
        named(el) == SelectSeq(dartFiles, LAMBDA f : includes(fileNameOf(f.path), el))
        hits == SelectSeq(flutterElements,
                    LAMBDA el : includes(lowerPrompt, el) /\ named(el) # << >>)
    IN IF files # << >> THEN [i \in DOMAIN files |-> files[i].path]
       ELSE IF hits # << >> THEN <<named(hits[1])[1].path>>
       ELSE findFlutterInsertionPoints(prompt, manifest)

findFlutterNavigationFiles(prompt, manifest) ==
    LET navigationFiles == SelectSeq(Paths(manifest),
                               LAMBDA p : /\ endsWith(p, ".dart")
                                          /\ \/ includes(p, "main.dart") \/ includes(p, "app.dart")
                                             \/ includes(p, "home.dart") \/ includes(p, "navigation"))
    IN IF navigationFiles = << >> THEN findFlutterInsertionPoints(prompt, manifest)
       ELSE navigationFiles

\* proposes pubspec.yml, a name no other part of the code knows
findFlutterPackageFilesYml(manifest) ==
    LET files == SelectSeq(Paths(manifest),
                     LAMBDA p : endsWith(p, "pubspec.yaml") \/ endsWith(p, "pubspec.yml"))
    IN IF files = << >> THEN <<"pubspec.yml">> ELSE files

findFlutterPackageFiles(manifest) ==
    LET files == SelectSeq(Paths(manifest),
                     LAMBDA p : endsWith(p, "pubspec.yaml") \/ endsWith(p, "pubspec.yml"))
    IN IF files = << >> THEN <<"pubspec.yaml">> ELSE files

\* pattern.fileResolver(prompt, manifest)
fileResolver(name, prompt, manifest) ==
    CASE name = "findFlutterInsertionPoints" -> findFlutterInsertionPoints(prompt, manifest)
      [] name = "findFlutterScreenInsertionPoints" ->
             findFlutterScreenInsertionPoints(prompt, manifest)
      [] name = "findFlutterWidgetFiles" -> findFlutterWidgetFiles(prompt, manifest)
      [] name = "findFlutterNavigationFiles" -> findFlutterNavigationFiles(prompt, manifest)
      [] name = "findFlutterPackageFiles" -> findFlutterPackageFiles(manifest)
      [] name = "findComponentByContent" -> findComponentByContent(prompt, manifest)
      [] name = "findFeatureInsertionPoints" -> findFeatureInsertionPoints(prompt, manifest)
      [] name = "findProblemFiles" -> findProblemFiles(prompt, manifest)
      [] name = "findStyleFiles" -> findStyleFiles(prompt, manifest)
      [] name = "findRefactorTargets" -> findRefactorTargets(prompt, manifest)
      [] name = "entryPoint" -> <<manifest.entryPoint>>
      [] name = "findPackageFiles" -> findPackageFiles(manifest)

(***************************************************************************)
(* analyzeEditIntent                                                       *)
(***************************************************************************)
\* the filter left out: every file is context
getSuggestedContextAllFiles(targetFiles, manifest) == Paths(manifest)

getSuggestedContext(targetFiles, manifest) ==
    SelectSeq(Paths(manifest), LAMBDA file : file \notin Range(targetFiles))

\* confidence in tenths: 0.5 is 5, 1.0 is 10
BaseConfidence == 5
FilesBonus == 2
LengthBonus == 1
MatchBonus == 2
MaxConfidence == 10
DefaultConfidence == 3
LongPromptPieces == 5

Min(a, b) == IF a < b THEN a ELSE b

calculateConfidence(prompt, pattern, targetFiles) ==
    Min(BaseConfidence
          + (IF Len(targetFiles) > 0 /\ targetFiles[1] # "" THEN FilesBonus ELSE 0)
          + (IF splitLength(prompt) > LongPromptPieces THEN LengthBonus ELSE 0)
          + (LET subject == toLowerCase(prompt)    \* the patterns carry the i flag
             IN IF \E k \in DOMAIN pattern.patterns :
                       MatchesAnywhere(pattern.patterns[k], subject)
                THEN MatchBonus ELSE 0),
        MaxConfidence)

RECURSIVE joinNames(_)
joinNames(files) ==
    IF files = << >> THEN ""
    ELSE IF Len(files) = 1 THEN lastSegment(files[1])
    ELSE lastSegment(files[1]) \o ", " \o joinNames(Tail(files))

generateDescription(type, prompt, targetFiles) ==
    LET fileNames == joinNames(targetFiles)
    IN CASE type = "UPDATE_COMPONENT" -> "Updating component(s): " \o fileNames
         [] type = "ADD_FEATURE" -> "Adding new feature to: " \o fileNames
         [] type = "FIX_ISSUE" -> "Fixing issue in: " \o fileNames
         [] type = "UPDATE_STYLE" -> "Updating styles in: " \o fileNames
         [] type = "REFACTOR" -> "Refactoring: " \o fileNames
         [] type = "FULL_REBUILD" -> "Rebuilding entire application"
         [] type = "ADD_DEPENDENCY" -> "Adding new dependency"
         [] type = "CREATE_FLUTTER_WIDGET" -> "Creating Flutter widget in: " \o fileNames
         [] type = "CREATE_FLUTTER_SCREEN" -> "Creating Flutter screen in: " \o fileNames
         [] type = "UPDATE_FLUTTER_WIDGET" -> "Updating Flutter widget in: " \o fileNames
         [] type = "ADD_FLUTTER_NAVIGATION" -> "Adding Flutter navigation to: " \o fileNames
         [] type = "ADD_FLUTTER_PACKAGE" -> "Adding Flutter package to: " \o fileNames
         [] OTHER -> "Editing: " \o fileNames

\* regex.test(lowerPrompt) for some regular expression of the group;
\* lowerPrompt is lower case already, so the i flag changes nothing
groupMatches(pattern, lowerPrompt) ==
    \E k \in DOMAIN pattern.patterns : MatchesAnywhere(pattern.patterns[k], lowerPrompt)

\* the loop over patterns from index g on: the intent of the first group
\* that matches, the default intent when the table is exhausted.
\* resolver names the fileResolver that was called ("" when none was).
RECURSIVE analyzeFrom(_, _, _, _)
analyzeFrom(g, prompt, lowerPrompt, manifest) ==
    LET intentOf(pattern, targetFiles) ==
            [type |-> pattern.type,
             targetFiles |-> targetFiles,
             confidence |-> calculateConfidence(prompt, pattern, targetFiles),
             description |-> generateDescription(pattern.type, prompt, targetFiles),
             suggestedContext |-> getSuggestedContext(targetFiles, manifest),
             resolver |-> pattern.fileResolver]
        try(pattern) ==
            IF groupMatches(pattern, lowerPrompt)
            THEN intentOf(pattern, fileResolver(pattern.fileResolver, prompt, manifest))
            ELSE analyzeFrom(g + 1, prompt, lowerPrompt, manifest)
    IN IF g > Len(patterns)
       THEN [type |-> "UPDATE_COMPONENT",
             targetFiles |-> <<manifest.entryPoint>>,
             confidence |-> DefaultConfidence,
             description |-> "General update to application",
             suggestedContext |-> << >>,
             resolver |-> ""]
       ELSE try(patterns[g])

\* the calls made so far, oldest first: what each was given, what it returned
\* and the manifest as the call left it
VARIABLE calls

\* the pattern table built once and shared by the calls, its expressions
\* remembering where the last test ended: a prompt that has just matched
\* does not match again
analyzeEditIntentSharedPatterns(prompt, manifest) ==
    LET r == analyzeFrom(1, prompt, toLowerCase(prompt), manifest)
        last == calls[Len(calls)]
    IN IF r.resolver # "" /\ calls # << >> /\ last.prompt = prompt /\ last.intent.resolver # ""
       THEN analyzeFrom(Len(patterns) + 1, prompt, toLowerCase(prompt), manifest)
       ELSE r

\* the default intent given the context of a matched one
analyzeEditIntentDefaultWithContext(prompt, manifest) ==
    LET r == analyzeFrom(1, prompt, toLowerCase(prompt), manifest)
    IN IF r.resolver = ""
       THEN [r EXCEPT !.suggestedContext = getSuggestedContext(r.targetFiles, manifest)]
       ELSE r

analyzeEditIntent(prompt, manifest) ==
    analyzeFrom(1, prompt, toLowerCase(prompt), manifest)

(***************************************************************************)
(* Prompts: a request, a qualifier, or a request followed by a qualifier   *)
(***************************************************************************)
Requests == {"create a login screen", "Create a profile page", "update the header widget",
             "add a fab", "add http package", "change the headers",
             "add a new pricing section", "fix the login button", "style the header",
             "refactor the footer", "start over", "install axios",
             "remove the 'Sign In' button", "!@ +=", "hello"}
Qualifiers == {"with app bar", "to the header", "it is broken", "from scratch",
               "and use react library"}
Separators == {" ", "  "}

Prompts ==
    {""} \cup Requests \cup Qualifiers
    \cup {r \o sep \o q : r \in Requests, sep \in Separators, q \in Qualifiers}

(***************************************************************************)
(* Callers of analyzeEditIntent that call it more than once                *)
(***************************************************************************)
CallPrompts == {"create a login screen", "fix the login button", "add http package", "hello"}
CallManifests == {ManifestOf({1, 2}, "src/App.jsx"), ManifestOf({5, 7}, "lib/main.dart")}
MaxCalls == 3

(***************************************************************************)
(* replaceTemplateVariables                                                *)
(* A config value is undefined, a boolean, a string or an array of         *)
(* objects; an object is the sequence of its <<key, value>> entries in     *)
(* insertion order, its values strings.  A config is a function from its   *)
(* keys to values; a key it maps to Undefined is a key it does not define. *)
(* Positions in strings count from 1, and 0 stands for "not found".        *)
(***************************************************************************)
Undefined == [kind |-> "undefined", b |-> FALSE, s |-> "", items |-> << >>]
Bool(b) == [kind |-> "boolean", b |-> b, s |-> "", items |-> << >>]
Str(s) == [kind |-> "string", b |-> FALSE, s |-> s, items |-> << >>]
Arr(items) == [kind |-> "array", b |-> FALSE, s |-> "", items |-> items]

\* config[key]
Lookup(config, key) == IF key \in DOMAIN config THEN config[key] ELSE Undefined

\* the value as a condition
Truthy(value) ==
    CASE value.kind = "undefined" -> FALSE
      [] value.kind = "boolean" -> value.b
      [] value.kind = "string" -> value.s # ""
      [] value.kind = "array" -> TRUE

\* String(value)
RECURSIVE objectsJoined(_)
objectsJoined(n) ==
    IF n = 0 THEN ""
    ELSE IF n = 1 THEN "[object Object]"
    ELSE objectsJoined(n - 1) \o ",[object Object]"
StringOf(value) ==
    CASE value.kind = "undefined" -> "undefined"
      [] value.kind = "boolean" -> (IF value.b THEN "true" ELSE "false")
      [] value.kind = "string" -> value.s
      [] value.kind = "array" -> objectsJoined(Len(value.items))

indexOf(s, t, from) ==
    LET hits == {i \in from..Len(s) : startsWithAt(s, t, i)}
    IN IF hits = {} THEN 0 ELSE CHOOSE i \in hits : \A j \in hits : i <= j

\* /\{\{([^}]+)\}\}/ tried at position i: where its closing braces start, 0
\* when it does not match there.  [^}]+ runs to the first closing brace.
variableEnd(s, i) ==
    IF ~startsWithAt(s, "{{", i) THEN 0
    ELSE LET q == indexOf(s, "}", i + 2)
         IN IF q >= i + 3 /\ startsWithAt(s, "}}", q) THEN q ELSE 0

\* the first replace: every {{key}} whose trimmed key the config defines;
\* the text between two matches is copied as it is
RECURSIVE replaceVariablesFrom(_, _, _)
replaceVariablesFrom(s, i, config) ==
    LET from(open) ==
            IF open = 0 THEN SubSeq(s, i, Len(s))
            ELSE LET q == variableEnd(s, open)
                 IN IF q = 0 THEN SubSeq(s, i, open) \o replaceVariablesFrom(s, open + 1, config)
                    ELSE LET value == Lookup(config, trim(SubSeq(s, open + 2, q - 1)))
                         IN SubSeq(s, i, open - 1)
                            \o (IF value.kind # "undefined" THEN StringOf(value)
                                ELSE SubSeq(s, open, q + 1))
                            \o replaceVariablesFrom(s, q + 2, config)
    IN IF i > Len(s) THEN "" ELSE from(indexOf(s, "{{", i))

\* /\{\{#([^}]+)\}\}([\s\S]*?)\{\{\/\1\}\}/ tried at position i: the key, the
\* content up to the first closing tag of that key and the last position
\* of the match; end = 0 when it does not match there
NoBlock == [end |-> 0, key |-> "", content |-> ""]
blockAt(s, i) ==
    IF ~startsWithAt(s, "{{#", i) THEN NoBlock
    ELSE LET q == indexOf(s, "}", i + 3)
         IN IF ~(q >= i + 4 /\ startsWithAt(s, "}}", q)) THEN NoBlock
            ELSE LET key == SubSeq(s, i + 3, q - 1)
                     close == "{{/" \o key \o "}}"
                     c == indexOf(s, close, q + 2)
                 IN IF c = 0 THEN NoBlock
                    ELSE [end |-> c + Len(close) - 1, key |-> key,
                          content |-> SubSeq(s, q + 2, c - 1)]

\* the callback of the second replace
conditionalBlock(key, content, config) ==
    IF Truthy(Lookup(config, trim(key))) THEN content ELSE ""

\* itemContent.replace(new RegExp('\\{\\{' + itemKey + '\\}\\}', 'g'), value)
RECURSIVE replaceAll(_, _, _, _)
replaceAll(s, i, t, r) ==
    IF i > Len(s) THEN ""
    ELSE IF startsWithAt(s, t, i) THEN r \o replaceAll(s, i + Len(t), t, r)
    ELSE CharAt(s, i) \o replaceAll(s, i + 1, t, r)

\* the content with the item's keys replaced, one key after the other
RECURSIVE itemContentFrom(_, _, _)
itemContentFrom(content, item, k) ==
    IF k > Len(item) THEN content
    ELSE itemContentFrom(replaceAll(content, 1, "{{" \o item[k][1] \o "}}", item[k][2]),
                         item, k + 1)

RECURSIVE joinItems(_, _, _)
joinItems(content, items, n) ==
    IF n > Len(items) THEN ""
    ELSE itemContentFrom(content, items[n], 1) \o joinItems(content, items, n + 1)

\* the callback of the third replace
loopBlock(key, content, config) ==
    LET items == Lookup(config, trim(key))
    IN IF items.kind = "array" THEN joinItems(content, items.items, 1) ELSE ""

\* a global replace of the block expression: matches are taken left to
\* right, the search resuming after each match; what a callback returns is
\* not searched again
RECURSIVE replaceBlocksFrom(_, _, _, _)
replaceBlocksFrom(pass, s, i, config) ==
    LET from(open) ==
            IF open = 0 THEN SubSeq(s, i, Len(s))
            ELSE LET m == blockAt(s, open)
                 IN IF m.end = 0
                    THEN SubSeq(s, i, open) \o replaceBlocksFrom(pass, s, open + 1, config)
                    ELSE SubSeq(s, i, open - 1)
                         \o (IF pass = "conditional"
                             THEN conditionalBlock(m.key, m.content, config)
                             ELSE loopBlock(m.key, m.content, config))
                         \o replaceBlocksFrom(pass, s, m.end + 1, config)
    IN IF i > Len(s) THEN "" ELSE from(indexOf(s, "{{#", i))

replaceTemplateVariables(template, config) ==
    LET variablesDone == replaceVariablesFrom(template, 1, config)
        conditionalsDone == replaceBlocksFrom("conditional", variablesDone, 1, config)
    IN replaceBlocksFrom("loop", conditionalsDone, 1, config)

(***************************************************************************)
(* Templates and configs                                                   *)
(***************************************************************************)
block(key, body) == "{{#" \o key \o "}}" \o body \o "{{/" \o key \o "}}"

Frames == {<<"", "">>, <<"Scaffold(", ")">>}
Bodies == {"x", "{{label}}", "{{icon}}:{{label}};", "Text('{{screen_title}}')"}
BlockKeys == {"has_app_bar", "bottom_nav_items"}
OuterKey == "has_bottom_navigation"
Prefixes == {"", "items: "}

TopLevelTemplates ==
    {f[1] \o block(key, body) \o f[2] : f \in Frames, key \in BlockKeys, body \in Bodies}
NestedTemplates ==
    {block(OuterKey, pre \o block(key, body)) :
        pre \in Prefixes, key \in BlockKeys, body \in Bodies}
Templates ==
    {"Text('{{screen_title}}')", "Text('{{ screen_title }}')", "{{has_app_bar}}",
     "{{bottom_nav_items}}", "{{#has_app_bar}}x"}
    \cup TopLevelTemplates \cup NestedTemplates

MaxItems == 2
Icons == <<"home", "cog", "star">>
Labels == <<"Home", "Settings", "Saved">>
NavItem(n) == << <<"icon", Icons[((n - 1) % Len(Icons)) + 1]>>,
                 <<"label", Labels[((n - 1) % Len(Labels)) + 1]>> >>
NavItems(n) == [k \in 1..n |-> NavItem(k)]

Configs ==
    {("screen_title" :> title) @@ ("has_app_bar" :> bar) @@ ("bottom_nav_items" :> items)
     @@ (OuterKey :> nav) :
        title \in {Undefined, Str("Login")},
        bar \in {Undefined, Bool(FALSE), Bool(TRUE), Str(""), Str("yes")},
        items \in {Undefined} \cup {Arr(NavItems(n)) : n \in 0..MaxItems},
        nav \in {Undefined, Bool(FALSE), Bool(TRUE)}}

(***************************************************************************)
(* FlutterCodeGenerator: the generate operations.  The template files are  *)
(* storage outside the program: files maps the names readFileSync can read *)
(* to their text.  What an operation did is a record of the templates it   *)
(* asked loadTemplate for, in order, and of what it returned or threw.     *)
(***************************************************************************)
Returned(loaded, text, fileMap) ==
    [threw |-> FALSE, error |-> "", loaded |-> loaded, text |-> text, files |-> fileMap]
Thrown(loaded, message) ==
    [threw |-> TRUE, error |-> message, loaded |-> loaded, text |-> "", files |-> << >>]

RECURSIVE concat(_)
concat(q) == IF q = << >> THEN "" ELSE Head(q) \o concat(Tail(q))

UpperChar(c) ==
    IF \E u \in DOMAIN LowerOf : LowerOf[u] = c
    THEN CHOOSE u \in DOMAIN LowerOf : LowerOf[u] = c
    ELSE c

\* replace [^a-zA-Z0-9] by a space, upper-case every \w after a \b, drop \s
toPascalCase(str) ==
    LET alnum(c) == IsWordChar(c) /\ c # "_"
        upperFirst(s) ==
            concat([i \in 1..Len(s) |->
                IF CharAt(s, i) = " " THEN ""
                ELSE IF i = 1 \/ CharAt(s, i - 1) = " " THEN UpperChar(CharAt(s, i))
                ELSE CharAt(s, i)])
    IN upperFirst(concat([i \in 1..Len(str) |->
                            IF alnum(CharAt(str, i)) THEN CharAt(str, i) ELSE " "]))

\* the five replace calls of toSnakeCase, in order
toSnakeCase(str) ==
    LET underscoreUpper(s) ==
            concat([i \in 1..Len(s) |->
                IF CharAt(s, i) \in DOMAIN LowerOf THEN "_" \o LowerOf[CharAt(s, i)]
                ELSE CharAt(s, i)])
        dropLeading(s) == IF startsWithAt(s, "_", 1) THEN Tail(s) ELSE s
        underscoreOthers(s) ==
            concat([i \in 1..Len(s) |-> IF IsWordChar(CharAt(s, i)) THEN CharAt(s, i) ELSE "_"])
        collapse(s) ==
            concat([i \in 1..Len(s) |->
                IF CharAt(s, i) = "_" /\ i > 1 /\ CharAt(s, i - 1) = "_" THEN ""
                ELSE CharAt(s, i)])
        dropTrailing(s) == IF endsWith(s, "_") THEN SubSeq(s, 1, Len(s) - 1) ELSE s
    IN dropTrailing(dropLeading(collapse(underscoreOthers(dropLeading(underscoreUpper(str))))))

\* a loadTemplate that gives an empty template for a file it cannot read
loadTemplateOrEmpty(templateName, files) ==
    [threw |-> FALSE, error |-> "",
     text |-> IF templateName \in DOMAIN files THEN files[templateName] ELSE ""]

loadTemplate(templateName, files) ==
    IF templateName \in DOMAIN files
    THEN [threw |-> FALSE, error |-> "", text |-> files[templateName]]
    ELSE [threw |-> TRUE, error |-> "Template not found: " \o templateName, text |-> ""]

\* what the five single-template operations share: load the template, lay
\* the caller's config over the defaults, replace
generateFrom(templateName, defaults, config, files) ==
    LET render(loadedTemplate) ==
            IF loadedTemplate.threw THEN Thrown(<<templateName>>, loadedTemplate.error)
            ELSE Returned(<<templateName>>,
                          replaceTemplateVariables(loadedTemplate.text, config @@ defaults),
                          << >>)
    IN render(loadTemplate(templateName, files))

generateMainDart(config, files) ==
    generateFrom("main.dart.template",
                 ("app_name" :> Str("MyApp")) @@ ("app_title" :> Str("Flutter App"))
                 @@ ("primary_color" :> Str("Colors.blue")) @@ ("home_widget" :> Str("HomePage")),
                 config, files)

generatePubspecYaml(config, files) ==
    generateFrom("pubspec.yaml.template",
                 ("project_name" :> Str("flutter_app"))
                 @@ ("project_description" :> Str("A new Flutter project."))
                 @@ ("dependencies" :> Arr(<< >>)) @@ ("dev_dependencies" :> Arr(<< >>))
                 @@ ("has_assets" :> Bool(FALSE)) @@ ("assets" :> Arr(<< >>))
                 @@ ("has_fonts" :> Bool(FALSE)) @@ ("fonts" :> Arr(<< >>)),
                 config, files)

generateStatefulWidget(config, files) ==
    generateFrom("stateful-widget.template",
                 ("constructor_params" :> Arr(<< >>)) @@ ("state_variables" :> Arr(<< >>))
                 @@ ("lifecycle_methods" :> Arr(<< >>)) @@ ("custom_methods" :> Arr(<< >>))
                 @@ ("widget_body" :> Str("Container()")),
                 config, files)

generateStatelessWidget(config, files) ==
    generateFrom("stateless-widget.template",
                 ("constructor_params" :> Arr(<< >>)) @@ ("custom_methods" :> Arr(<< >>))
                 @@ ("widget_body" :> Str("Container()")),
                 config, files)

generateScreen(config, files) ==
    generateFrom("screen.template",
                 ("screen_title" :> Lookup(config, "screen_name"))
                 @@ ("has_app_bar" :> Bool(TRUE)) @@ ("has_drawer" :> Bool(FALSE))
                 @@ ("has_floating_action_button" :> Bool(FALSE))
                 @@ ("has_bottom_navigation" :> Bool(FALSE)) @@ ("has_actions" :> Bool(FALSE))
                 @@ ("body_content" :> Str("Center(child: Text(\"Hello World\"))"))
                 @@ ("actions" :> Arr(<< >>)) @@ ("drawer_items" :> Arr(<< >>))
                 @@ ("bottom_nav_items" :> Arr(<< >>)) @@ ("current_index" :> Str("0"))
                 @@ ("on_tap_handler" :> Str("(index) {}")) @@ ("fab_action" :> Str("() {}"))
                 @@ ("fab_tooltip" :> Str("Action")) @@ ("fab_icon" :> Str("Icons.add")),
                 config, files)

\* config.projectName, .appTitle, .projectDescription and .primaryColor, ""
\* for an option left out (the code reads the options through ||).  The
\* three generate calls run in order and the first throw ends the call.
generateFlutterProject(config, files) ==
    LET appName == toPascalCase(config.projectName)
        homeWidget == appName \o "HomePage"
        or(a, b) == IF a # "" THEN a ELSE b
        title == or(config.appTitle, config.projectName)
        fileMap(mainDart, pubspecYaml, homePage) ==
            IF mainDart.threw THEN Thrown(mainDart.loaded, mainDart.error)
            ELSE IF pubspecYaml.threw
                 THEN Thrown(mainDart.loaded \o pubspecYaml.loaded, pubspecYaml.error)
            ELSE IF homePage.threw
                 THEN Thrown(mainDart.loaded \o pubspecYaml.loaded \o homePage.loaded,
                             homePage.error)
            ELSE Returned(mainDart.loaded \o pubspecYaml.loaded \o homePage.loaded, "",
                          ("lib/main.dart" :> mainDart.text)
                          @@ ("pubspec.yaml" :> pubspecYaml.text)
                          @@ (("lib/pages/" \o toSnakeCase(homeWidget) \o ".dart")
                                :> homePage.text))
    IN fileMap(
        generateMainDart(
            ("app_name" :> Str(appName)) @@ ("app_title" :> Str(title))
            @@ ("primary_color" :> Str(or(config.primaryColor, "Colors.blue")))
            @@ ("home_widget" :> Str(homeWidget)), files),
        generatePubspecYaml(
            ("project_name" :> Str(toSnakeCase(config.projectName)))
            @@ ("project_description" :>
                  Str(or(config.projectDescription,
                         "A new Flutter project generated by Open Lovable."))), files),
        generateScreen(
            ("screen_name" :> Str(homeWidget)) @@ ("screen_title" :> Str(title))
            @@ ("body_content" :>
                  Str("Center(\n        child: Column(\n"
                      \o "          mainAxisAlignment: MainAxisAlignment.center,\n"
                      \o "          children: [\n            Text(\n"
                      \o "              'Welcome to " \o title \o "!',\n"
                      \o "              style: TextStyle(fontSize: 24, fontWeight: FontWeight.bold),\n"
                      \o "            ),\n            SizedBox(height: 16),\n            Text(\n"
                      \o "              'Start building your amazing app',\n"
                      \o "              style: TextStyle(fontSize: 16),\n"
                      \o "            ),\n          ],\n        ),\n      )")), files))

\* extractScreenName, extractWidgetName and extractProjectName after their
\* regular expressions: captured is match[1] of the first expression that
\* matched, NoCapture when none did
NoCapture == [matched |-> FALSE, text |-> ""]
Capture(text) == [matched |-> TRUE, text |-> text]
extractedName(captured, suffix, fallback) ==
    LET named(baseName) == IF endsWith(baseName, suffix) THEN baseName ELSE baseName \o suffix
    IN IF captured.matched THEN named(toPascalCase(captured.text)) ELSE fallback

generateScreenFromPrompt(prompt, captured, files) ==
    LET screenName == extractedName(captured, "Screen", "GeneratedScreen")
        lower == toLowerCase(prompt)
    IN generateScreen(
        ("screen_name" :> Str(screenName))
        @@ ("has_app_bar" :> Bool(includes(lower, "appbar") \/ includes(lower, "app bar")))
        @@ ("has_floating_action_button" :>
              Bool(includes(lower, "floating action") \/ includes(lower, "fab")))
        @@ ("has_bottom_navigation" :>
              Bool(includes(lower, "bottom navigation") \/ includes(lower, "tab")))
        @@ ("body_content" :>
              Str("Center(\n        child: Text('" \o screenName \o " Screen'),\n      )")),
        files)

generateWidgetFromPrompt(prompt, captured, files) ==
    LET widgetName == extractedName(captured, "Widget", "GeneratedWidget")
        lower == toLowerCase(prompt)
        isStateful == includes(lower, "stateful") \/ includes(lower, "state")
                      \/ includes(lower, "interactive")
        widgetConfig ==
            ("widget_name" :> Str(widgetName))
            @@ ("widget_body" :>
                  Str("Container(\n          child: Text('" \o widgetName \o "'),\n        )"))
    IN IF isStateful THEN generateStatefulWidget(widgetConfig, files)
       ELSE generateStatelessWidget(widgetConfig, files)

\* the project's lib/main.dart is what the call returns
generateProjectFromPrompt(prompt, captured, files) ==
    LET suffix == IF includes(toLowerCase(prompt), "project") THEN "Project" ELSE "App"
        projectName == extractedName(captured, suffix, "GeneratedApp")
        mainOf(project) ==
            IF project.threw THEN project
            ELSE Returned(project.loaded, project.files["lib/main.dart"], << >>)
    IN mainOf(generateFlutterProject(
                [projectName |-> projectName, appTitle |-> projectName,
                 projectDescription |-> "", primaryColor |-> ""], files))

\* the dispatch without its guard on the project type
generateFlutterCodeFromPromptUnguarded(prompt, projectType, captured, files) ==
    generateScreenFromPrompt(prompt, captured, files)

\* the dispatch with the widget test ahead of the screen test
generateFlutterCodeFromPromptWidgetFirst(prompt, projectType, captured, files) ==
    LET lowerPrompt == toLowerCase(prompt)
    IN IF projectType # "FLUTTER_MOBILE"
       THEN Thrown(<< >>, "Flutter code generation is only supported for Flutter mobile projects")
       ELSE IF includes(lowerPrompt, "widget") \/ includes(lowerPrompt, "component")
            THEN generateWidgetFromPrompt(prompt, captured, files)
       ELSE generateScreenFromPrompt(prompt, captured, files)

generateFlutterCodeFromPrompt(prompt, projectType, captured, files) ==
    LET lowerPrompt == toLowerCase(prompt)
    IN IF projectType # "FLUTTER_MOBILE"
       THEN Thrown(<< >>, "Flutter code generation is only supported for Flutter mobile projects")
       ELSE IF includes(lowerPrompt, "screen") \/ includes(lowerPrompt, "page")
            THEN generateScreenFromPrompt(prompt, captured, files)
       ELSE IF includes(lowerPrompt, "widget") \/ includes(lowerPrompt, "component")
            THEN generateWidgetFromPrompt(prompt, captured, files)
       ELSE IF includes(lowerPrompt, "project") \/ includes(lowerPrompt, "app")
            THEN generateProjectFromPrompt(prompt, captured, files)
       ELSE generateStatelessWidget(
                ("widget_name" :> Str("GeneratedWidget"))
                @@ ("widget_body" :>
                      Str("Container(\n        child: Text('Generated from: " \o prompt
                          \o "'),\n      )")),
                files)

\* the five template files and a text for each
TemplateTexts ==
    ("main.dart.template" :>
        "void main() => runApp({{app_name}}());\n// {{app_title}}, {{home_widget}}")
    @@ ("pubspec.yaml.template" :>
        "name: {{project_name}}\ndescription: {{project_description}}\n{{#has_assets}}  assets:\n{{/has_assets}}")
    @@ ("stateless-widget.template" :>
        "class {{widget_name}} extends StatelessWidget {\n  build() => {{widget_body}};\n}")
    @@ ("stateful-widget.template" :>
        "class {{widget_name}} extends StatefulWidget {\n  build() => {{widget_body}};\n}")
    @@ ("screen.template" :>
        "class {{screen_name}} {\n{{#has_app_bar}}AppBar('{{screen_title}}')\n{{/has_app_bar}}body: {{body_content}}\n}")
TemplateNames == DOMAIN TemplateTexts
TemplateFiles == {[name \in present |-> TemplateTexts[name]] : present \in SUBSET TemplateNames}

ProjectTypes == {"REACT_WEB", "FLUTTER_MOBILE"}
GeneratorPrompts ==
    {"create a login screen with app bar", "Profile Page", "build a counter widget",
     "a stateful component", "make a todo app", "new project", "hello", "happy",
     "Screen widget app", "a plain button"}
Captures == {NoCapture, Capture("login"), Capture("user_profile")}
AppConfigs == {<< >>, ("app_name" :> Str("Shop")) @@ ("app_title" :> Str("My Shop"))}
WidgetConfigs ==
    {("widget_name" :> Str("Counter")),
     ("widget_name" :> Str("Counter")) @@ ("widget_body" :> Str("Text('0')"))}
ScreenConfigs ==
    {("screen_name" :> Str("Home")),
     ("screen_name" :> Str("Home")) @@ ("has_app_bar" :> Bool(FALSE))}
ProjectConfigs ==
    {[projectName |-> "todo list", appTitle |-> title, projectDescription |-> "",
      primaryColor |-> ""] : title \in {"", "Todo"}}

(***************************************************************************)
(* DartValidator (lib/dart-validator.ts).  Its regular expressions have no *)
(* i flag.  formattedCode, the fourth field of a validation result, is     *)
(* computed from the code alone after errors and warnings are final and is *)
(* left out of the result here.                                            *)
(***************************************************************************)
Wb == [t |-> "wb"]                          \* \b

\* code.split('\n')
RECURSIVE splitLinesFrom(_, _)
splitLinesFrom(code, i) ==
    LET rest(n) == IF n = 0 THEN <<SubSeq(code, i, Len(code))>>
                   ELSE <<SubSeq(code, i, n - 1)>> \o splitLinesFrom(code, n + 1)
    IN rest(indexOf(code, "\n", i))
splitLines(code) == splitLinesFrom(code, 1)

RECURSIVE flatten(_)
flatten(qs) == IF qs = << >> THEN << >> ELSE Head(qs) \o flatten(Tail(qs))

\* s.match(/prefix\s+(\w+)next/): match[1] of the leftmost match, next a
\* literal; every quantifier is greedy and what follows \w+ is no \w
captureAfter(prefix, next, s) ==
    LET starts == {i \in 1..Len(s) : MatchSeq(<<prefix, Sp, W, Lit(next)>>, 1, s, i) # {}}
        least(S) == CHOOSE i \in S : \A j \in S : i <= j
        most(S) == CHOOSE i \in S : \A j \in S : i >= j
        word(from) == SubSeq(s, from, wordRunEnd(s, from) - 1)
    IN IF starts = {} THEN NoCapture
       ELSE Capture(word(most(MatchSeq(<<prefix, Sp>>, 1, s, least(starts)))))

DartError(line, column, message, severity, code) ==
    [line |-> line, column |-> column, message |-> message, severity |-> severity,
     code |-> code]

\* the return expression of shouldHaveSemicolon
startsStatement(line) ==
    LET test(re) == MatchSeq(re, 1, line, 1) # {}
    IN \/ test(<<SpStar, AltLit(<<"var", "final", "const", "int", "double", "String",
                                  "bool", "List", "Map">>), Sp>>)
       \/ test(<<SpStar, W, SpStar, Lit("=")>>)
       \/ (test(<<SpStar, Lit("return"), Sp>>) /\ ~endsWith(trim(line), "("))
       \/ test(<<SpStar, Lit("throw"), Sp>>)
       \/ test(<<SpStar, Lit("assert"), SpStar, Lit("(")>>)
       \/ test(<<SpStar, Lit("super"), SpStar, Lit("(")>>)

shouldHaveSemicolon(line) ==
    LET trimmed == trim(line)
    IN IF includes(trimmed, "{") \/ includes(trimmed, "=>") \/ endsWith(trimmed, "(")
       THEN FALSE
       ELSE startsStatement(line)

typos ==
    << <<"Stateless", "StatelessWidget">>, <<"Stateful", "StatefulWidget">>,
       <<"scaffold", "Scaffold">>, <<"appBar", "AppBar">>, <<"container", "Container">>,
       <<"text", "Text">>, <<"column", "Column">>, <<"row", "Row">> >>

checkCommonTypos(line, lineNumber) ==
    flatten([k \in DOMAIN typos |->
        IF MatchesAnywhere(<<Wb, Lit(typos[k][1]), Wb>>, line) /\ ~includes(line, "//")
        THEN <<DartError(lineNumber, indexOf(line, typos[k][1], 1),
                         "Did you mean '" \o typos[k][2] \o "'? Found '" \o typos[k][1] \o "'",
                         "error", "possible_typo")>>
        ELSE << >>])

\* the errors the call pushes
checkBasicSyntax(line, lineNumber) ==
    LET trimmedLine == trim(line)
    IN IF trimmedLine = "" \/ startsWithAt(trimmedLine, "//", 1)
          \/ startsWithAt(trimmedLine, "/*", 1)
       THEN << >>
       ELSE (IF shouldHaveSemicolon(trimmedLine) /\ ~endsWith(trimmedLine, ";")
             THEN <<DartError(lineNumber, Len(line), "Missing semicolon at end of statement",
                              "error", "missing_semicolon")>>
             ELSE << >>)
            \o checkCommonTypos(line, lineNumber)

FLUTTER_WIDGETS ==
    {"Widget", "StatelessWidget", "StatefulWidget", "State", "BuildContext", "Scaffold",
     "AppBar", "Container", "Text", "Column", "Row", "Stack", "ListView", "GridView",
     "Image", "Icon", "IconButton", "ElevatedButton", "TextButton",
     "FloatingActionButton", "Card", "Padding", "Margin", "Center", "Align", "Expanded",
     "Flexible", "SizedBox", "Divider", "TextField", "TextFormField", "DropdownButton",
     "Checkbox", "Radio", "Switch", "Slider", "AlertDialog", "BottomSheet", "Drawer",
     "BottomNavigationBar", "TabBar", "TabBarView", "MaterialApp", "CupertinoApp",
     "Theme", "MediaQuery", "SafeArea"}

\* /^[A-Z][a-zA-Z0-9]*$/ and /^[a-z][a-zA-Z0-9]*$/
nameCase(name) ==
    IF name = "" \/ \E i \in 1..Len(name) : ~IsWordChar(CharAt(name, i)) \/ CharAt(name, i) = "_"
    THEN "other"
    ELSE IF CharAt(name, 1) \in DOMAIN LowerOf THEN "pascal"
    ELSE IF UpperChar(CharAt(name, 1)) # CharAt(name, 1) THEN "camel"
    ELSE "other"

\* the warnings the call pushes
checkFlutterPatterns(line, lineNumber) ==
    LET trimmedLine == trim(line)
        missingConst(widgetMatch) ==
            IF widgetMatch.matched /\ widgetMatch.text \in FLUTTER_WIDGETS
            THEN <<DartError(lineNumber, indexOf(trimmedLine, widgetMatch.text, 1),
                             "Consider adding 'const' keyword for better performance: const "
                                \o widgetMatch.text \o "(...)",
                             "warning", "missing_const")>>
            ELSE << >>
        className(classMatch) ==
            IF classMatch.matched /\ nameCase(classMatch.text) # "pascal"
            THEN <<DartError(lineNumber, indexOf(trimmedLine, classMatch.text, 1),
                             "Widget class names should be in PascalCase",
                             "warning", "invalid_class_name")>>
            ELSE << >>
    IN (IF /\ MatchSeq(<<SpStar, Lit("return"), Sp, W, Lit("(")>>, 1, trimmedLine, 1) # {}
           /\ ~includes(trimmedLine, "const")
        THEN missingConst(captureAfter(Lit("return"), "(", trimmedLine))
        ELSE << >>)
       \o (IF /\ includes(trimmedLine, "({") /\ includes(trimmedLine, "key")
              /\ ~includes(trimmedLine, "super.key")
           THEN <<DartError(lineNumber, 1, "Consider using super.key instead of key parameter",
                            "warning", "prefer_super_key")>>
           ELSE << >>)
       \o className(captureAfter(Lit("class"), "", trimmedLine))

\* trimmedLine.match(/'[^']{10,}'/g)
RECURSIVE longStringsFrom(_, _)
longStringsFrom(s, i) ==
    LET closed(q, close) ==
            IF q = 0 \/ close = 0 THEN << >>
            ELSE IF close - q - 1 >= 10
                 THEN <<SubSeq(s, q, close)>> \o longStringsFrom(s, close + 1)
            ELSE longStringsFrom(s, q + 1)
        opened(q) == closed(q, IF q = 0 THEN 0 ELSE indexOf(s, "'", q + 1))
    IN opened(indexOf(s, "'", i))

\* the warnings the call pushes
checkBestPractices(line, lineNumber) ==
    LET trimmedLine == trim(line)
        variableName(varMatch) ==
            IF /\ varMatch.matched
               /\ ~includes(trimmedLine, "(") /\ ~includes(trimmedLine, "extends")
               /\ nameCase(varMatch.text) # "camel" /\ ~startsWithAt(varMatch.text, "_", 1)
            THEN <<DartError(lineNumber, indexOf(trimmedLine, varMatch.text, 1),
                             "Variable names should be in camelCase",
                             "warning", "invalid_variable_name")>>
            ELSE << >>
        longStrings(stringMatches) ==
            flatten([k \in DOMAIN stringMatches |->
                IF /\ ~includes(trimmedLine, "//") /\ ~includes(trimmedLine, "import")
                   /\ Len(stringMatches[k]) > 20
                THEN <<DartError(lineNumber, indexOf(trimmedLine, stringMatches[k], 1),
                                 "Consider extracting long strings to constants or localization",
                                 "info", "long_string_literal")>>
                ELSE << >>])
    IN variableName(captureAfter(AltLit(<<"var", "final", "const">>), "", trimmedLine))
       \o longStrings(longStringsFrom(trimmedLine, 1))
       \o (IF includes(trimmedLine, "setState") /\ ~includes(trimmedLine, "() =>")
           THEN <<DartError(lineNumber, indexOf(trimmedLine, "setState", 1),
                            "Consider using setState(() => { ... }) for better readability",
                            "info", "setState_style")>>
           ELSE << >>)

\* the errors the call pushes
checkOverallStructure(code) ==
    (IF /\ includes(code, "StatelessWidget") \/ includes(code, "StatefulWidget")
        /\ ~includes(code, "import 'package:flutter/material.dart'")
     THEN <<DartError(1, 1, "Missing required import: import 'package:flutter/material.dart';",
                      "error", "missing_import")>>
     ELSE << >>)
    \o (IF includes(code, "extends StatefulWidget") /\ ~includes(code, "extends State<")
        THEN <<DartError(1, 1, "StatefulWidget requires a corresponding State class",
                         "error", "missing_state_class")>>
        ELSE << >>)
    \o (IF /\ includes(code, "extends StatelessWidget") \/ includes(code, "extends State<")
           /\ ~includes(code, "Widget build(BuildContext context)")
        THEN <<DartError(1, 1, "Widget classes must have a build method",
                         "error", "missing_build_method")>>
        ELSE << >>)

\* a validateDartCode whose isValid also asks for no warnings
validateDartCodeStrict(code) ==
    LET lines == splitLines(code)
        result(errors, warnings) ==
            [isValid |-> errors = << >> /\ warnings = << >>, errors |-> errors,
             warnings |-> warnings]
    IN result(flatten([i \in DOMAIN lines |-> checkBasicSyntax(lines[i], i)])
                \o checkOverallStructure(code),
              flatten([i \in DOMAIN lines |->
                         checkFlutterPatterns(lines[i], i) \o checkBestPractices(lines[i], i)]))

validateDartCode(code) ==
    LET lines == splitLines(code)
        result(errors, warnings) ==
            [isValid |-> errors = << >>, errors |-> errors, warnings |-> warnings]
    IN result(flatten([i \in DOMAIN lines |-> checkBasicSyntax(lines[i], i)])
                \o checkOverallStructure(code),
              flatten([i \in DOMAIN lines |->
                         checkFlutterPatterns(lines[i], i) \o checkBestPractices(lines[i], i)]))

\* code.match(/\b(if|else|for|while|case|catch|&&|\|\||\?)\b/g): with a \b
\* on either side no two matches overlap, so the matches are the positions
\* where one alternative matches
decisionPoints(code) ==
    Cardinality({i \in 1..Len(code) :
        MatchSeq(<<Wb, AltLit(<<"if", "else", "for", "while", "case", "catch", "&&", "||",
                                "?">>), Wb>>, 1, code, i) # {}})

\* code.match(/\b(\w+)\s*\([^)]*\)\s*{/g): the matches are taken left to
\* right, each search resuming after the match before
methodEnd(code, i) ==
    LET open == classRunEnd("s", code, wordRunEnd(code, i))
        close == indexOf(code, ")", open + 1)
        brace == classRunEnd("s", code, close + 1)
    IN IF /\ MatchSeq(<<Wb, W>>, 1, code, i) # {}
          /\ startsWithAt(code, "(", open) /\ close # 0 /\ startsWithAt(code, "{", brace)
       THEN brace ELSE 0
RECURSIVE methodsFrom(_, _)
methodsFrom(code, from) ==
    LET starts == {i \in from..Len(code) : methodEnd(code, i) # 0}
        after(i) == 1 + methodsFrom(code, methodEnd(code, i) + 1)
    IN IF starts = {} THEN 0 ELSE after(CHOOSE i \in starts : \A j \in starts : i <= j)

RECURSIVE nestingDepthFrom(_, _, _, _)
nestingDepthFrom(lines, k, currentDepth, maxDepth) ==
    LET count(c) == Cardinality({i \in 1..Len(lines[k]) : CharAt(lines[k], i) = c})
        next(depth) ==
            nestingDepthFrom(lines, k + 1, depth, IF depth > maxDepth THEN depth ELSE maxDepth)
    IN IF k > Len(lines) THEN maxDepth ELSE next(currentDepth + count("{") - count("}"))

analyzeComplexity(code) ==
    LET all == splitLines(code)
        kept(k) == trim(all[k]) # "" /\ ~startsWithAt(trim(all[k]), "//", 1)
        measured(lines) ==
            [cyclomaticComplexity |-> decisionPoints(code) + 1,
             linesOfCode |-> Len(lines),
             numberOfMethods |-> methodsFrom(code, 1),
             nestingDepth |-> nestingDepthFrom(lines, 1, 0, 0)]
    IN measured(flatten([k \in DOMAIN all |-> IF kept(k) THEN <<all[k]>> ELSE << >>]))

\* s.replace(t, r) for a string t: the first occurrence only
replaceFirst(s, t, r) ==
    LET at(i) == IF i = 0 THEN s
                 ELSE SubSeq(s, 1, i - 1) \o r \o SubSeq(s, i + Len(t), Len(s))
    IN at(indexOf(s, t, 1))

\* what a replacement string stands for in String.replace: $$ is one $,
\* $1 is the first group of the match, any other character is itself
RECURSIVE expandReplacement(_, _, _)
expandReplacement(replacement, i, group) ==
    IF i > Len(replacement) THEN ""
    ELSE IF startsWithAt(replacement, "$$", i)
         THEN "$" \o expandReplacement(replacement, i + 2, group)
    ELSE IF startsWithAt(replacement, "$1", i)
         THEN group \o expandReplacement(replacement, i + 2, group)
    ELSE CharAt(replacement, i) \o expandReplacement(replacement, i + 1, group)

\* line.replace(/\$\{(\w+)\}/g, replacement)
interpolationEnd(line, i) ==
    LET close == wordRunEnd(line, i + 2)
    IN IF startsWithAt(line, "${", i) /\ close > i + 2 /\ startsWithAt(line, "}", close)
       THEN close ELSE 0
RECURSIVE replaceInterpolationsFrom(_, _, _)
replaceInterpolationsFrom(line, i, replacement) ==
    LET from(open) ==
            IF open = 0 THEN SubSeq(line, i, Len(line))
            ELSE IF interpolationEnd(line, open) = 0
                 THEN SubSeq(line, i, open)
                      \o replaceInterpolationsFrom(line, open + 1, replacement)
            ELSE SubSeq(line, i, open - 1)
                 \o expandReplacement(replacement, 1,
                        SubSeq(line, open + 2, interpolationEnd(line, open) - 1))
                 \o replaceInterpolationsFrom(line, interpolationEnd(line, open) + 1,
                                              replacement)
    IN IF i > Len(line) THEN "" ELSE from(indexOf(line, "${", i))

getQuickFixes(error, line) ==
    LET constFix(widgetMatch) ==
            IF widgetMatch.matched
            THEN <<replaceFirst(line, widgetMatch.text \o "(",
                                "const " \o widgetMatch.text \o "(")>>
            ELSE << >>
        firstCall == {i \in 1..Len(line) : MatchSeq(<<W, Lit("(")>>, 1, line, i) # {}}
        wordAt(i) == Capture(SubSeq(line, i, wordRunEnd(line, i) - 1))
    IN CASE error.code = "missing_const" ->
              constFix(IF firstCall = {} THEN NoCapture
                       ELSE wordAt(CHOOSE i \in firstCall : \A j \in firstCall : i <= j))
         [] error.code = "prefer_super_key" ->
              <<replaceFirst(replaceFirst(line, "{key}", "{super.key}"),
                             "{Key? key}", "{super.key}")>>
         [] error.code = "missing_semicolon" -> <<line \o ";">>
         [] error.code = "prefer_single_quotes" -> <<replaceAll(line, 1, "\"", "'")>>
         [] error.code = "unnecessary_brace_in_string_interps" ->
              <<replaceInterpolationsFrom(line, 1, "$$1")>>
         [] OTHER -> << >>

\* Dart sources: an optional import, one or two widget classes, each with
\* or without a build method, and short pieces of one or two lines
joinLines(lines) ==
    concat([k \in DOMAIN lines |-> IF k = 1 THEN lines[k] ELSE "\n" \o lines[k]])

ValidBodies ==
    {<<"    return const Scaffold(", "      body: Center(",
       "        child: Text('Hello World'),", "      ),", "    );">>,
     <<"    return Scaffold(", "      appBar: AppBar(title: const Text('Home')),",
       "      body: const Text('Hi'),", "    );">>}
BuildBodies ==
    ValidBodies \cup {<<"    var message = \"Hello World\"", "    return Text(message);">>}

ClassLines(name, base, body) ==
    <<"class " \o name \o " extends " \o base \o " {">>
    \o (IF body = << >> THEN <<"  final String title = 'untitled';">>
        ELSE <<"  @override", "  Widget build(BuildContext context) {">> \o body \o <<"  }">>)
    \o <<"}">>

WidgetBases == {"StatelessWidget", "State<Counter>"}
FirstClasses ==
    {ClassLines("Home", base, body) : base \in WidgetBases, body \in BuildBodies \cup {<< >>}}
SecondClasses ==
    {<< >>, <<"">> \o ClassLines("Badge", "StatelessWidget", << >>),
     <<"">> \o ClassLines("Counter", "StatefulWidget", << >>)}
    \cup {<<"">> \o ClassLines("Badge", "StatelessWidget", body) : body \in BuildBodies}
ImportLines == {<< >>, <<"import 'package:flutter/material.dart';", "">>}
WidgetSources ==
    {joinLines(import \o first \o second) :
        import \in ImportLines, first \in FirstClasses, second \in SecondClasses}

DartLines ==
    {"", "// var note = 1", "var message = \"Hello World\"", "final m = {'a': 1}",
     "var next = () => 1", "int count = 0;", "  return Text(message)", "  return Text(message);",
     "total = compute(",
     "if (a && b) {", "} else if (a&&b || c) {", "done = ok ? 1 : 2;",
     "throw StateError('a long message, longer than twenty')", "print('${name} has ${count}');"}
PieceSources == DartLines \cup {a \o "\n" \o b : a, b \in DartLines}
DartSources == WidgetSources \cup PieceSources

QuickFixCodes ==
    {"missing_const", "prefer_super_key", "missing_semicolon", "prefer_single_quotes",
     "unnecessary_brace_in_string_interps", "possible_typo"}

(***************************************************************************)
(* State                                                                   *)
(***************************************************************************)
VARIABLES
    prompt,          \* the prompt of the call
    manifest,        \* the caller's manifest
    intent,          \* what analyzeEditIntent returned, NoIntent before the call
    template,        \* the template text loadTemplate returned
    config,          \* the config of the generate call
    rendered,        \* what replaceTemplateVariables returned, NotRendered before
    templateFiles,   \* lib/flutter-templates: the readable files and their text
    generation,      \* the generate operation called and what it did
    dartCode,        \* the Dart source, or the line, given to the DartValidator
    dartResult,      \* the DartValidator operation called and what it returned
    autoSyncConfig,  \* GitHubAutoSync.config
    currentRepo,     \* whether the GitHubSync has a repository connected
    isRunning,       \* GitHubAutoSync.isRunning
    intervalId,      \* GitHubAutoSync.intervalId, 0 for null
    timers,          \* the interval timers set and not cleared: id -> interval, due time
    pendingChanges,  \* GitHubAutoSync.pendingChanges: file path -> event
    syncHistory,     \* GitHubAutoSync.syncHistory
    inFlight,        \* the calls of performAutoSync and triggerSync waiting at an
                     \* await, a bag
    now,             \* Date.now()
    reportedFiles,   \* how many of FilePaths the caller has reported a change of
                     \* since pendingChanges was last cleared
    componentFiles,  \* what findComponentFiles returned, NotFound before the call
    pubspecs,        \* the PubspecData objects: the caller's and those addAsset returned
    flutters,        \* the objects the flutter fields of the PubspecData objects refer to
    addedAssets,     \* the asset paths given to addAsset so far
    githubCall,      \* the GitHubIntegration / GitHubSync operation in flight or
                     \* returned last: where it waits, what it returned
    apiCalls,        \* the octokit methods that operation has called, in order
    connecting,      \* whether a connectToRepository waits for getRepository
    projectState,    \* the projectState of ProjectContextProvider
    transitions,     \* the pending timers of setProjectType, oldest first: the type
                     \* each will set
    lastType         \* the type passed to the last call of setProjectType, "" if none

generatorVars == <<templateFiles, generation>>
validatorVars == <<dartCode, dartResult>>
componentVars == <<componentFiles>>
pubspecVars == <<pubspecs, flutters, addedAssets>>
githubVars == <<githubCall, apiCalls, connecting>>
projectVars == <<projectState, transitions, lastType>>
restVars == <<componentVars, pubspecVars, githubVars, projectVars>>
syncVars == <<autoSyncConfig, currentRepo, isRunning, intervalId, timers, pendingChanges,
              syncHistory, inFlight, now, reportedFiles>>
vars == <<prompt, manifest, intent, calls, template, config, rendered, generatorVars,
          validatorVars, syncVars, restVars>>

NoIntent == [type |-> "none"]
NotRendered == [done |-> FALSE, text |-> ""]
NoGeneration ==
    [operation |-> "", prompt |-> "", projectType |-> "", outcome |-> Thrown(<< >>, "")]

\* the parts of the state a specification does not use
IntentIdle == prompt = "" /\ manifest = ManifestOf({1}, "src/App.jsx") /\ intent = NoIntent
CallsIdle == calls = << >>
TemplateIdle == template = "" /\ config = ("screen_title" :> Undefined) /\ rendered = NotRendered
GeneratorIdle == templateFiles = << >> /\ generation = NoGeneration
NoDartResult == [operation |-> "", error |-> "", value |-> << >>]
ValidatorIdle == dartCode = "" /\ dartResult = NoDartResult
NotFound == [done |-> FALSE, files |-> << >>]
ComponentIdle == componentFiles = NotFound
PubspecIdle == pubspecs = << >> /\ flutters = << >> /\ addedAssets = {}
NoResult == [success |-> FALSE, repo |-> "", committed |-> FALSE, error |-> ""]
NoCall == [operation |-> "", pc |-> "", name |-> "", flutterIgnore |-> FALSE, files |-> 0,
           blobs |-> 0, repo |-> "", threw |-> "", result |-> NoResult]
GitHubIdle == githubCall = NoCall /\ apiCalls = << >> /\ connecting = FALSE
defaultProjectState ==
    [currentProjectType |-> "REACT_WEB", isTransitioning |-> FALSE, sessionId |-> "",
     lastSelected |-> ""]
ProjectIdle == projectState = defaultProjectState /\ transitions = << >> /\ lastType = ""
RestIdle == ComponentIdle /\ PubspecIdle /\ GitHubIdle /\ ProjectIdle
SyncIdle ==
    /\ autoSyncConfig = << >>
    /\ currentRepo = FALSE
    /\ isRunning = FALSE
    /\ intervalId = 0
    /\ timers = << >>
    /\ pendingChanges = << >>
    /\ syncHistory = << >>
    /\ inFlight = EmptyBag
    /\ now = 0
    /\ reportedFiles = 0

\* one call of analyzeEditIntent
InitIntent ==
    /\ prompt \in Prompts
    /\ manifest \in Manifests
    /\ intent = NoIntent
    /\ CallsIdle
    /\ TemplateIdle
    /\ GeneratorIdle
    /\ ValidatorIdle
    /\ SyncIdle
    /\ RestIdle

Analyze ==
    /\ intent = NoIntent
    /\ intent' = analyzeEditIntent(prompt, manifest)
    /\ UNCHANGED <<prompt, manifest, calls, template, config, rendered, generatorVars, validatorVars, syncVars, restVars>>

NextIntent == Analyze

SpecIntent == InitIntent /\ [][NextIntent]_vars

\* a caller that calls analyzeEditIntent again and again; the manifest is
\* passed by reference and no statement of the call writes to it
InitCalls ==
    /\ IntentIdle
    /\ CallsIdle
    /\ TemplateIdle
    /\ GeneratorIdle
    /\ ValidatorIdle
    /\ SyncIdle
    /\ RestIdle

Call(p, m) ==
    /\ Len(calls) < MaxCalls
    /\ prompt' = p
    /\ manifest' = m
    /\ intent' = analyzeEditIntent(p, m)
    /\ calls' = Append(calls, [prompt |-> p, manifest |-> m, intent |-> intent',
                               manifestAfter |-> manifest'])
    /\ UNCHANGED <<template, config, rendered, generatorVars, validatorVars, syncVars, restVars>>

NextCalls == \E p \in CallPrompts, m \in CallManifests : Call(p, m)

SpecCalls == InitCalls /\ [][NextCalls]_vars

\* one call of replaceTemplateVariables
InitTemplate ==
    /\ IntentIdle
    /\ CallsIdle
    /\ template \in Templates
    /\ config \in Configs
    /\ rendered = NotRendered
    /\ GeneratorIdle
    /\ ValidatorIdle
    /\ SyncIdle
    /\ RestIdle

Render ==
    /\ ~rendered.done
    /\ rendered' = [done |-> TRUE, text |-> replaceTemplateVariables(template, config)]
    /\ UNCHANGED <<prompt, manifest, intent, calls, template, config, generatorVars, validatorVars, syncVars, restVars>>

NextTemplate == Render

SpecTemplate == InitTemplate /\ [][NextTemplate]_vars

\* one call of a generate operation of a FlutterCodeGenerator
InitGenerator ==
    /\ IntentIdle
    /\ CallsIdle
    /\ TemplateIdle
    /\ templateFiles \in TemplateFiles
    /\ generation = NoGeneration
    /\ ValidatorIdle
    /\ SyncIdle
    /\ RestIdle

Generated(operation, text, projectType, outcome) ==
    /\ generation = NoGeneration
    /\ generation' = [operation |-> operation, prompt |-> text,
                      projectType |-> projectType, outcome |-> outcome]
    /\ UNCHANGED <<prompt, manifest, intent, calls, template, config, rendered,
                   templateFiles, validatorVars, syncVars, restVars>>

NextGenerator ==
    \/ \E c \in AppConfigs :
         Generated("generateMainDart", "", "", generateMainDart(c, templateFiles))
    \/ \E c \in AppConfigs :
         Generated("generatePubspecYaml", "", "", generatePubspecYaml(c, templateFiles))
    \/ \E c \in WidgetConfigs :
         Generated("generateStatefulWidget", "", "", generateStatefulWidget(c, templateFiles))
    \/ \E c \in WidgetConfigs :
         Generated("generateStatelessWidget", "", "", generateStatelessWidget(c, templateFiles))
    \/ \E c \in ScreenConfigs :
         Generated("generateScreen", "", "", generateScreen(c, templateFiles))
    \/ \E c \in ProjectConfigs :
         Generated("generateFlutterProject", "", "", generateFlutterProject(c, templateFiles))
    \/ \E p \in GeneratorPrompts, t \in ProjectTypes, captured \in Captures :
         Generated("generateFlutterCodeFromPrompt", p, t,
                   generateFlutterCodeFromPrompt(p, t, captured, templateFiles))

SpecGenerator == InitGenerator /\ [][NextGenerator]_vars


\* one call of an operation of the DartValidator; its methods are static
\* and keep nothing between calls
InitValidator ==
    /\ IntentIdle
    /\ CallsIdle
    /\ TemplateIdle
    /\ GeneratorIdle
    /\ dartCode \in DartSources
    /\ dartResult = NoDartResult
    /\ SyncIdle
    /\ RestIdle

Validated(operation, errorCode, value) ==
    /\ dartResult = NoDartResult
    /\ dartResult' = [operation |-> operation, error |-> errorCode, value |-> value]
    /\ UNCHANGED <<prompt, manifest, intent, calls, template, config, rendered,
                   generatorVars, dartCode, syncVars, restVars>>

NextValidator ==
    \/ Validated("validateDartCode", "", validateDartCode(dartCode))
    \/ Validated("analyzeComplexity", "", analyzeComplexity(dartCode))
    \/ \E errorCode \in QuickFixCodes :
         /\ dartCode \in DartLines
         /\ Validated("getQuickFixes", errorCode,
                      getQuickFixes(DartError(1, 1, "", "info", errorCode), dartCode))

SpecValidator == InitValidator /\ [][NextValidator]_vars

(***************************************************************************)
(* GitHubAutoSync (lib/github-auto-sync.ts) and the connection of the      *)
(* GitHubSync it is given.  Times are milliseconds; 0 stands for null and  *)
(* undefined numbers, "" for an undefined error.  A partial config is a    *)
(* function from the keys it gives to their values.  The                   *)
(* commitMessageTemplate of a config only shapes the text of the commit    *)
(* message, and the content and timestamp of a FileChangeEvent are stored  *)
(* and never read: they are left out.                                      *)
(***************************************************************************)
DefaultInterval == 60000
DefaultMaxCommitsPerHour == 10
PendingLimit == 10
OneHour == 3600000
OneDay == 86400000

DefaultAutoSyncConfig ==
    [enabled |-> FALSE, interval |-> DefaultInterval, onFileChange |-> TRUE,
     maxCommitsPerHour |-> DefaultMaxCommitsPerHour]

\* the constructor: { ...defaults, ...config }
GitHubAutoSync(partial) == partial @@ DefaultAutoSyncConfig

\* the calls that may wait at an await at once, the sync attempts made, the
\* steps of one minute, one hour and one day the clock makes in all
MaxInFlight == 2
MaxHistory == 2
MaxAdvances == 1

AutoSyncConfigs ==
    {<< >>, [enabled |-> TRUE, maxCommitsPerHour |-> 1],
     [enabled |-> TRUE, onFileChange |-> FALSE]}
NewConfigs == {[interval |-> OneHour]}

StartTimes == {2 * OneDay}
Instants ==
    {t + d[1] * DefaultInterval + d[2] * OneHour + d[3] * OneDay :
        t \in StartTimes,
        d \in {steps \in [1..3 -> 0..MaxAdvances] : steps[1] + steps[2] + steps[3] <= MaxAdvances}}

\* The program uses a file path as a key of pendingChanges and in no other
\* way, so the caller reports a new file as the next of FilePaths, or
\* reports another change of the first one; once pendingChanges is cleared
\* it starts again from the first.
FilePaths ==
    <<"src/App.jsx", "src/NewComponent.jsx", "src/components/Header.jsx",
      "src/components/Footer.jsx", "src/components/Card.jsx", "src/components/List.jsx",
      "src/hooks/useData.js", "src/lib/api.js", "src/styles/app.css", "src/index.jsx",
      "src/main.jsx">>
FileChangeEvent(filePath, changeType) == [filePath |-> filePath, changeType |-> changeType]

FetchOutcomes == {"files", "no files", "throws"}
FetchError == "Failed to fetch"
SyncResult(success, error) == [success |-> success, error |-> error]
UploadResults == {SyncResult(TRUE, ""), SyncResult(FALSE, "Bad credentials")}

or(a, b) == IF a # "" THEN a ELSE b
without(f, k) == [x \in DOMAIN f \ {k} |-> f[x]]

recentSyncs(history, time) == SelectSeq(history, LAMBDA sync : sync.timestamp > time - OneHour)

getStatus ==
    LET recent == recentSyncs(syncHistory, now)
        recentErrors == SelectSeq(recent, LAMBDA sync : ~sync.success)
        lastSync == IF Len(syncHistory) > 0 THEN syncHistory[Len(syncHistory)].timestamp ELSE 0
    IN [enabled |-> isRunning,
        lastSync |-> lastSync,
        nextSync |-> IF isRunning /\ lastSync # 0 THEN lastSync + autoSyncConfig.interval ELSE 0,
        pendingChanges |-> Cardinality(DOMAIN pendingChanges),
        syncCount |-> Len(recent),
        errors |-> [i \in 1..Len(recentErrors) |-> or(recentErrors[i].error, "Unknown error")]]

\* the timer state start and stop work on
TimerState == [isRunning |-> isRunning, intervalId |-> intervalId, timers |-> timers]

setInterval(active, interval) ==
    LET id == CHOOSE n \in 1..(Cardinality(DOMAIN active) + 1) : n \notin DOMAIN active
    IN [id |-> id, timers |-> (id :> [interval |-> interval, due |-> now + interval]) @@ active]

\* start without the test of isRunning
startUnguarded(t, cfg) ==
    IF ~currentRepo
    THEN [state |-> t, result |-> SyncResult(FALSE, "No GitHub repository connected")]
    ELSE LET set == setInterval(t.timers, cfg.interval)
         IN [state |-> [isRunning |-> TRUE, intervalId |-> set.id, timers |-> set.timers],
             result |-> SyncResult(TRUE, "")]

start(t, cfg) ==
    IF t.isRunning
    THEN [state |-> t, result |-> SyncResult(FALSE, "Auto-sync is already running")]
    ELSE IF ~currentRepo
    THEN [state |-> t, result |-> SyncResult(FALSE, "No GitHub repository connected")]
    ELSE LET set == setInterval(t.timers, cfg.interval)
         IN [state |-> [isRunning |-> TRUE, intervalId |-> set.id, timers |-> set.timers],
             result |-> SyncResult(TRUE, "")]

stop(t) ==
    [isRunning |-> FALSE, intervalId |-> 0,
     timers |-> IF t.intervalId # 0 THEN without(t.timers, t.intervalId) ELSE t.timers]

SetTimerState(t) ==
    /\ isRunning' = t.isRunning
    /\ intervalId' = t.intervalId
    /\ timers' = t.timers

AwaitingFetch(operation) == [operation |-> operation, pc |-> "fetch", files |-> << >>]
Awaiting(call) == SetToBag({call})
HasRoom ==
    /\ BagCardinality(inFlight) < MaxInFlight
    /\ Len(syncHistory) + BagCardinality(inFlight) < MaxHistory

\* performAutoSync up to its first await: whether it goes on to fetch the
\* sandbox files, with pending the pendingChanges it finds
performAutoSyncFetches(pending) ==
    /\ autoSyncConfig.enabled
    /\ Cardinality(DOMAIN pending) # 0
    /\ Len(recentSyncs(syncHistory, now)) < autoSyncConfig.maxCommitsPerHour

performAutoSync(pending) ==
    IF performAutoSyncFetches(pending)
    THEN HasRoom /\ inFlight' = inFlight (+) Awaiting(AwaitingFetch("performAutoSync"))
    ELSE UNCHANGED inFlight

SyncAttempt(success, error) == [timestamp |-> now, success |-> success, error |-> error]

\* one GitHubAutoSync and the GitHubSync it is given
InitAutoSync ==
    /\ IntentIdle
    /\ CallsIdle
    /\ TemplateIdle
    /\ GeneratorIdle
    /\ ValidatorIdle
    /\ RestIdle
    /\ \E partial \in AutoSyncConfigs : autoSyncConfig = GitHubAutoSync(partial)
    /\ currentRepo = FALSE
    /\ isRunning = FALSE
    /\ intervalId = 0
    /\ timers = << >>
    /\ pendingChanges = << >>
    /\ syncHistory = << >>
    /\ inFlight = EmptyBag
    /\ now \in StartTimes
    /\ reportedFiles = 0

otherVars ==
    <<prompt, manifest, intent, calls, template, config, rendered, generatorVars, validatorVars,
      restVars>>

\* GitHubSync.connectToRepository succeeding, and GitHubSync.disconnect
Connect ==
    /\ currentRepo' = TRUE
    /\ UNCHANGED <<otherVars, autoSyncConfig, isRunning, intervalId, timers, pendingChanges,
                   syncHistory, inFlight, now, reportedFiles>>

Disconnect ==
    /\ currentRepo' = FALSE
    /\ UNCHANGED <<otherVars, autoSyncConfig, isRunning, intervalId, timers, pendingChanges,
                   syncHistory, inFlight, now, reportedFiles>>

Advance ==
    /\ \E t \in Instants : t > now /\ now' = t
    /\ UNCHANGED <<otherVars, autoSyncConfig, currentRepo, isRunning, intervalId, timers,
                   pendingChanges, syncHistory, inFlight, reportedFiles>>

Start ==
    LET started == start(TimerState, autoSyncConfig)
    IN /\ SetTimerState(started.state)
       /\ UNCHANGED <<otherVars, autoSyncConfig, currentRepo, pendingChanges, syncHistory,
                      inFlight, now, reportedFiles>>

Stop ==
    /\ SetTimerState(stop(TimerState))
    /\ UNCHANGED <<otherVars, autoSyncConfig, currentRepo, pendingChanges, syncHistory,
                   inFlight, now, reportedFiles>>

\* the callback of the interval timer id
Tick(id) ==
    /\ id \in DOMAIN timers
    /\ now >= timers[id].due
    /\ timers' = [timers EXCEPT ![id].due = now + timers[id].interval]
    /\ performAutoSync(pendingChanges)
    /\ UNCHANGED <<otherVars, autoSyncConfig, currentRepo, isRunning, intervalId,
                   pendingChanges, syncHistory, now, reportedFiles>>

RecordFileChange(event) ==
    /\ \/ /\ reportedFiles < Len(FilePaths)
          /\ event = FileChangeEvent(FilePaths[reportedFiles + 1], "modified")
          /\ reportedFiles' = reportedFiles + 1
       \/ /\ reportedFiles > 0
          /\ event = FileChangeEvent(FilePaths[1], "modified")
          /\ UNCHANGED reportedFiles
    /\ IF ~autoSyncConfig.enabled \/ ~autoSyncConfig.onFileChange
       THEN UNCHANGED <<pendingChanges, inFlight>>
       ELSE /\ pendingChanges' = (event.filePath :> event) @@ pendingChanges
            /\ IF Cardinality(DOMAIN pendingChanges') > PendingLimit
               THEN performAutoSync(pendingChanges')
               ELSE UNCHANGED inFlight
    /\ UNCHANGED <<otherVars, autoSyncConfig, currentRepo, isRunning, intervalId, timers,
                   syncHistory, now>>

UpdateConfig(newConfig) ==
    LET updated == newConfig @@ autoSyncConfig
        restart == /\ isRunning
                   /\ "interval" \in DOMAIN newConfig
                   /\ newConfig["interval"] # 0
                   /\ newConfig["interval"] # updated.interval
    IN /\ autoSyncConfig' = updated
       /\ SetTimerState(IF restart THEN start(stop(TimerState), updated).state ELSE TimerState)
       /\ UNCHANGED <<otherVars, currentRepo, pendingChanges, syncHistory, inFlight, now,
                      reportedFiles>>

\* triggerSync up to its first await
TriggerSync ==
    /\ IF ~currentRepo
       THEN UNCHANGED inFlight
       ELSE HasRoom /\ inFlight' = inFlight (+) Awaiting(AwaitingFetch("triggerSync"))
    /\ UNCHANGED <<otherVars, autoSyncConfig, currentRepo, isRunning, intervalId, timers,
                   pendingChanges, syncHistory, now, reportedFiles>>

\* what syncToRepository returns without waiting when no repository is connected
NotConnected == SyncResult(FALSE, "No repository connected. Use connectToRepository() first.")

\* a call leaves its last await with result: the end of performAutoSync
\* and of triggerSync, whose return value nothing here reads
Completes(call, result, recorded) ==
    /\ inFlight' = inFlight (-) Awaiting(call)
    /\ syncHistory' = IF recorded
                      THEN Append(syncHistory, SyncAttempt(result.success, result.error))
                      ELSE syncHistory
    /\ pendingChanges' = IF result.success THEN << >> ELSE pendingChanges
    /\ reportedFiles' = IF result.success THEN 0 ELSE reportedFiles

\* fetch('/api/get-sandbox-files') and response.json() return to a call
FetchReturns(call, outcome) ==
    /\ BagIn(call, inFlight)
    /\ call.pc = "fetch"
    /\ CASE outcome = "throws" -> Completes(call, SyncResult(FALSE, FetchError), TRUE)
         [] outcome = "no files" ->
              Completes(call, SyncResult(FALSE, "No project files found"),
                        call.operation = "performAutoSync")
         [] outcome = "files" ->
              IF currentRepo
              THEN /\ inFlight' = (inFlight (-) Awaiting(call))
                                  (+) Awaiting([call EXCEPT !.pc = "sync", !.files = pendingChanges])
                   /\ UNCHANGED <<pendingChanges, syncHistory, reportedFiles>>
              ELSE Completes(call, NotConnected, TRUE)
    /\ UNCHANGED <<otherVars, autoSyncConfig, currentRepo, isRunning, intervalId, timers, now>>

\* githubSync.syncToRepository returns to a call
SyncReturns(call, result) ==
    /\ BagIn(call, inFlight)
    /\ call.pc = "sync"
    /\ Completes(call, IF call.operation = "performAutoSync" /\ ~result.success
                       THEN SyncResult(FALSE, or(result.error, "Sync failed"))
                       ELSE result,
                 TRUE)
    /\ UNCHANGED <<otherVars, autoSyncConfig, currentRepo, isRunning, intervalId, timers, now>>

Cleanup ==
    /\ syncHistory' = SelectSeq(syncHistory, LAMBDA sync : sync.timestamp > now - OneDay)
    /\ UNCHANGED <<otherVars, autoSyncConfig, currentRepo, isRunning, intervalId, timers,
                   pendingChanges, inFlight, now, reportedFiles>>

NextAutoSync ==
    \/ Connect
    \/ Disconnect
    \/ Advance
    \/ Start
    \/ Stop
    \/ \E id \in DOMAIN timers : Tick(id)
    \/ \E i \in 1..Len(FilePaths) : RecordFileChange(FileChangeEvent(FilePaths[i], "modified"))
    \/ \E newConfig \in NewConfigs : UpdateConfig(newConfig)
    \/ TriggerSync
    \/ \E call \in BagToSet(inFlight), outcome \in FetchOutcomes : FetchReturns(call, outcome)
    \/ \E call \in BagToSet(inFlight), result \in UploadResults : SyncReturns(call, result)
    \/ Cleanup

SpecAutoSync == InitAutoSync /\ [][NextAutoSync]_vars

(***************************************************************************)
(* One call of findComponentFiles                                          *)
(***************************************************************************)
ComponentFilePool == <<
    FileInfo("src/components/HeaderNav.jsx", "", 4, "HeaderNav", ""),
    FileInfo("src/components/Header.jsx", "", 3, "Header", ""),
    FileInfo("src/components/Top.jsx", "", 2, "SiteBanner", ""),
    FileInfo("src/components/Navbar.jsx", "", 5, "", ""),
    FileInfo("src/App.jsx", "", 1, "App", "") >>

MaxComponentFiles == 3

ComponentManifests ==
    {[files |-> SelectSeqOf(ComponentFilePool, {ComponentFilePool[i] : i \in S}),
      entryPoint |-> "src/App.jsx", styleFiles |-> << >>] :
        S \in {T \in SUBSET (DOMAIN ComponentFilePool) : Cardinality(T) <= MaxComponentFiles}}

ComponentPrompts ==
    {"", "update the header", "fix headers", "change navs and headers", "make it blue",
     "edit the app", "restyle footers", "the banner", "banners and navs", "Update HEADERNAV"}

InitComponentFiles ==
    /\ prompt \in ComponentPrompts
    /\ manifest \in ComponentManifests
    /\ intent = NoIntent
    /\ CallsIdle
    /\ TemplateIdle
    /\ GeneratorIdle
    /\ ValidatorIdle
    /\ SyncIdle
    /\ componentFiles = NotFound
    /\ PubspecIdle
    /\ GitHubIdle
    /\ ProjectIdle

FindComponentFiles ==
    /\ ~componentFiles.done
    /\ componentFiles' = [done |-> TRUE, files |-> findComponentFiles(prompt, manifest)]
    /\ UNCHANGED <<prompt, manifest, intent, calls, template, config, rendered, generatorVars,
                   validatorVars, syncVars, pubspecVars, githubVars, projectVars>>

NextComponentFiles == FindComponentFiles

SpecComponentFiles == InitComponentFiles /\ [][NextComponentFiles]_vars

(***************************************************************************)
(* FlutterPackageManager.addAsset (lib/flutter-package-manager.ts).        *)
(* Objects are kept by reference: a PubspecData object is its flutter      *)
(* field, 0 for undefined or the position in flutters of the object it     *)
(* refers to, and a flutter object is its assets field.  The fields        *)
(* addAsset neither reads nor writes are left out.                         *)
(***************************************************************************)
NoAssets == [defined |-> FALSE, assets |-> << >>]
Assets(list) == [defined |-> TRUE, assets |-> list]

\* addAsset that never tests whether the path is in the list
addAssetAlways(objects, i, assetPath) ==
    LET allocated == IF objects.pubspecs[i] = 0
                     THEN [pubspecs |-> [objects.pubspecs EXCEPT ![i] = Len(objects.flutters) + 1],
                           flutters |-> Append(objects.flutters, NoAssets)]
                     ELSE objects
        flutter == allocated.pubspecs[i]
        assets == allocated.flutters[flutter].assets
    IN [pubspecs |-> Append(allocated.pubspecs, flutter),
        flutters |-> [allocated.flutters EXCEPT ![flutter] = Assets(Append(assets, assetPath))]]

\* addAsset on the PubspecData object i; the object it returns is the last
\* of pubspecs
addAsset(objects, i, assetPath) ==
    LET \* if (!pubspecData.flutter) pubspecData.flutter = {}
        allocated == IF objects.pubspecs[i] = 0
                     THEN [pubspecs |-> [objects.pubspecs EXCEPT ![i] = Len(objects.flutters) + 1],
                           flutters |-> Append(objects.flutters, NoAssets)]
                     ELSE objects
        flutter == allocated.pubspecs[i]
        \* if (!pubspecData.flutter.assets) pubspecData.flutter.assets = []
        assets == allocated.flutters[flutter].assets
        pushed == IF \E k \in DOMAIN assets : assets[k] = assetPath
                  THEN assets
                  ELSE Append(assets, assetPath)
    IN \* return { ...pubspecData }
       [pubspecs |-> Append(allocated.pubspecs, flutter),
        flutters |-> [allocated.flutters EXCEPT ![flutter] = Assets(pushed)]]

AssetPaths == {"assets/logo.png", "assets/images/", "assets/data.json"}
MaxAssets == 2
MaxPubspecs == 5

\* the lists of at most MaxAssets asset paths without duplicates
AssetLists ==
    UNION {{list \in [1..n -> AssetPaths] : \A j, k \in 1..n : list[j] = list[k] => j = k} :
              n \in 0..MaxAssets}

InitPubspec ==
    /\ IntentIdle
    /\ CallsIdle
    /\ TemplateIdle
    /\ GeneratorIdle
    /\ ValidatorIdle
    /\ SyncIdle
    /\ ComponentIdle
    /\ GitHubIdle
    /\ ProjectIdle
    /\ \/ pubspecs = <<0>> /\ flutters = << >>
       \/ pubspecs = <<1>> /\ flutters = <<NoAssets>>
       \/ pubspecs = <<1>> /\ \E list \in AssetLists : flutters = <<Assets(list)>>
    /\ addedAssets = {}

AddAsset(i, assetPath) ==
    /\ Len(pubspecs) < MaxPubspecs
    /\ LET objects == addAsset([pubspecs |-> pubspecs, flutters |-> flutters], i, assetPath)
       IN pubspecs' = objects.pubspecs /\ flutters' = objects.flutters
    /\ addedAssets' = addedAssets \cup {assetPath}
    /\ UNCHANGED <<prompt, manifest, intent, calls, template, config, rendered, generatorVars,
                   validatorVars, syncVars, componentVars, githubVars, projectVars>>

NextPubspec == \E i \in DOMAIN pubspecs, assetPath \in AssetPaths : AddAsset(i, assetPath)

SpecPubspec == InitPubspec /\ [][NextPubspec]_vars

(***************************************************************************)
(* GitHubIntegration (createRepository, uploadProjectFiles,               *)
(* createProjectRepository) and GitHubSync (connectToRepository,          *)
(* syncToRepository, disconnect).  Every await of an octokit method is a  *)
(* step: the method is logged in apiCalls when it is called, and it then  *)
(* returns or throws.                                                      *)
(***************************************************************************)
MaxUploadFiles == 2

Owner == "testuser"

RepoNames == {"my-app", "my app"}

RepoConfigs ==
    {[name |-> n, projectType |-> t, includeReadme |-> r] :
        n \in RepoNames, t \in {"react", "flutter"}, r \in BOOLEAN}

ApiError(status, message) == [status |-> status, message |-> message]

\* what an octokit method throws; status 0 is an error without a status
ApiErrors ==
    {ApiError(404, "Not Found"), ApiError(403, "Forbidden"),
     ApiError(422, "Validation Failed"), ApiError(401, "Bad credentials"),
     ApiError(0, "socket hang up"), ApiError(0, "")}

InvalidName ==
    ApiError(0, "Repository name can only contain alphanumeric characters, periods, hyphens, and underscores")

\* /^[a-zA-Z0-9._-]+$/.test(name)
validRepoName(name) ==
    /\ name # ""
    /\ \A i \in 1..Len(name) : IsWordChar(CharAt(name, i)) \/ CharAt(name, i) \in {".", "-"}

Result(success, repo, committed, error) ==
    [success |-> success, repo |-> repo, committed |-> committed, error |-> error]

\* the catch block of createRepository
createRepositoryError(error, name) ==
    IF error.status = 422 THEN "Repository \"" \o name \o "\" already exists or name is invalid"
    ELSE IF error.status = 401
        THEN "GitHub authentication failed. Please check your access token."
    ELSE IF error.status = 403 THEN "Insufficient permissions or rate limit exceeded"
    ELSE or(error.message, "Unknown error")

\* the catch block of uploadProjectFiles
uploadProjectFilesError(error, owner, repoName) ==
    IF error.status = 404 THEN "Repository " \o owner \o "/" \o repoName \o " not found"
    ELSE IF error.status = 403 THEN "Insufficient permissions to write to repository"
    ELSE or(error.message, "Upload failed")

\* an upload that moves the branch before the tree and the commit exist
uploadProjectFilesRefFirst(method, blobs, files) ==
    CASE method = "repos.get" -> "git.getRef"
      [] method = "git.getRef" -> "git.updateRef"
      [] method = "git.updateRef" -> IF blobs < files THEN "git.createBlob" ELSE "git.createTree"
      [] method = "git.createBlob" -> IF blobs < files THEN "git.createBlob" ELSE "git.createTree"
      [] method = "git.createTree" -> "git.createCommit"
      [] method = "git.createCommit" -> ""

\* the try block of uploadProjectFiles: the octokit method it calls once `method`
\* has returned with `blobs` blobs created for `files` files, "" when it returns
uploadProjectFiles(method, blobs, files) ==
    CASE method = "repos.get" -> "git.getRef"
      [] method = "git.getRef" -> IF blobs < files THEN "git.createBlob" ELSE "git.createTree"
      [] method = "git.createBlob" -> IF blobs < files THEN "git.createBlob" ELSE "git.createTree"
      [] method = "git.createTree" -> "git.createCommit"
      [] method = "git.createCommit" -> "git.updateRef"
      [] method = "git.updateRef" -> ""

\* a createProjectRepository that forgets the repository when the upload fails
createProjectRepositoryNoRepo(repoResult, uploadResult) ==
    IF ~repoResult.success \/ repoResult.repo = ""
    THEN Result(FALSE, "", FALSE, or(repoResult.error, "Failed to create repository"))
    ELSE IF ~uploadResult.success
    THEN Result(FALSE, "", FALSE, or(uploadResult.error, "Failed to upload"))
    ELSE Result(TRUE, repoResult.repo, uploadResult.committed, "")

\* what createProjectRepository returns from the result of createRepository and,
\* when the repository was created, the result of uploadProjectFiles
createProjectRepository(repoResult, uploadResult) ==
    IF ~repoResult.success \/ repoResult.repo = ""
    THEN Result(FALSE, "", FALSE, or(repoResult.error, "Failed to create repository"))
    ELSE IF ~uploadResult.success
    THEN Result(FALSE, repoResult.repo, FALSE,
                "Repository created but file upload failed: " \o uploadResult.error)
    ELSE Result(TRUE, repoResult.repo, uploadResult.committed, "")

NotConnectedError == "No repository connected. Use connectToRepository() first."

\* a syncToRepository that uploads to the last repository without looking at currentRepo
syncToRepositoryAlways(connected) == [upload |-> TRUE, result |-> NoResult]

\* the start of syncToRepository: whether it calls uploadProjectFiles, and what it
\* returns when it does not
syncToRepository(connected) ==
    IF ~connected
    THEN [upload |-> FALSE, result |-> Result(FALSE, "", FALSE, NotConnectedError)]
    ELSE [upload |-> TRUE, result |-> NoResult]

\* what the operation returns once uploadProjectFiles has returned uploadResult
OperationResult(call, uploadResult) ==
    CASE call.operation = "uploadProjectFiles" -> uploadResult
      [] call.operation = "syncToRepository" ->
            IF ~uploadResult.success THEN Result(FALSE, "", FALSE, uploadResult.error)
            ELSE Result(TRUE, "", uploadResult.committed, "")
      [] call.operation = "createProjectRepository" ->
            createProjectRepository(Result(TRUE, call.repo, FALSE, ""), uploadResult)

GitHubOperations == {"uploadProjectFiles", "syncToRepository", "createProjectRepository"}

UploadMethods ==
    {"repos.get", "git.getRef", "git.createBlob", "git.createTree", "git.createCommit",
     "git.updateRef"}

Settled == githubCall.pc \in {"", "returned"}

InitGitHub ==
    /\ IntentIdle
    /\ CallsIdle
    /\ TemplateIdle
    /\ GeneratorIdle
    /\ ValidatorIdle
    /\ SyncIdle
    /\ ComponentIdle
    /\ PubspecIdle
    /\ GitHubIdle
    /\ ProjectIdle

githubOtherVars ==
    <<prompt, manifest, intent, calls, template, config, rendered, generatorVars,
      validatorVars, autoSyncConfig, isRunning, intervalId, timers, pendingChanges,
      syncHistory, inFlight, now, reportedFiles, componentVars, pubspecVars, projectVars>>

Upload(operation, name, repo, files) ==
    /\ githubCall' = [NoCall EXCEPT !.operation = operation, !.pc = "repos.get",
                                    !.name = name, !.files = files, !.repo = repo]
    /\ apiCalls' = IF operation = "createProjectRepository"
                   THEN Append(apiCalls, "repos.get") ELSE <<"repos.get">>

UploadProjectFiles(name, files) ==
    /\ Settled
    /\ Upload("uploadProjectFiles", name, "", files)
    /\ UNCHANGED <<githubOtherVars, currentRepo, connecting>>

SyncToRepository(files) ==
    /\ Settled
    /\ LET begun == syncToRepository(currentRepo)
       IN  IF begun.upload
           THEN Upload("syncToRepository", "my-app", "", files)
           ELSE /\ githubCall' = [NoCall EXCEPT !.operation = "syncToRepository",
                                                !.pc = "returned", !.files = files,
                                                !.result = begun.result]
                /\ apiCalls' = << >>
    /\ UNCHANGED <<githubOtherVars, currentRepo, connecting>>

CreateProjectRepository(repoConfig, files) ==
    /\ Settled
    /\ LET call == [NoCall EXCEPT !.operation = "createProjectRepository",
                                  !.name = repoConfig.name, !.files = files,
                                  !.flutterIgnore = repoConfig.projectType = "flutter"
                                                    /\ repoConfig.includeReadme]
       IN  IF validRepoName(repoConfig.name)
           THEN /\ githubCall' = [call EXCEPT !.pc = "repos.createForAuthenticatedUser"]
                /\ apiCalls' = <<"repos.createForAuthenticatedUser">>
           ELSE /\ githubCall' =
                       [call EXCEPT !.pc = "returned",
                                    !.result = createProjectRepository(
                                        Result(FALSE, "", FALSE,
                                               createRepositoryError(InvalidName,
                                                                     repoConfig.name)),
                                        NoResult)]
                /\ apiCalls' = << >>
    /\ UNCHANGED <<githubOtherVars, currentRepo, connecting>>

\* the awaited octokit method returns
ApiReturns ==
    /\ githubCall.pc \in UploadMethods \cup {"repos.createForAuthenticatedUser",
                                              "repos.createOrUpdateFileContents"}
    /\ LET pc == githubCall.pc
           blobs == githubCall.blobs + (IF pc = "git.createBlob" THEN 1 ELSE 0)
           created == [githubCall EXCEPT !.repo = Owner \o "/" \o githubCall.name]
       IN  CASE pc = "repos.createForAuthenticatedUser" ->
                    IF githubCall.flutterIgnore
                    THEN /\ githubCall' =
                                [created EXCEPT !.pc = "repos.createOrUpdateFileContents"]
                         /\ apiCalls' = Append(apiCalls, "repos.createOrUpdateFileContents")
                    ELSE /\ githubCall' = [created EXCEPT !.pc = "setTimeout"]
                         /\ apiCalls' = apiCalls
             [] pc = "repos.createOrUpdateFileContents" ->
                    /\ githubCall' = [githubCall EXCEPT !.pc = "setTimeout"]
                    /\ apiCalls' = apiCalls
             [] OTHER ->
                    LET next == uploadProjectFiles(pc, blobs, githubCall.files)
                    IN  IF next = ""
                        THEN /\ githubCall' =
                                    [githubCall EXCEPT
                                        !.pc = "returned", !.blobs = blobs,
                                        !.result = OperationResult(githubCall,
                                                            Result(TRUE, "", TRUE, ""))]
                             /\ apiCalls' = apiCalls
                        ELSE /\ githubCall' = [githubCall EXCEPT !.pc = next, !.blobs = blobs]
                             /\ apiCalls' = Append(apiCalls, next)
    /\ UNCHANGED <<githubOtherVars, currentRepo, connecting>>

\* the awaited octokit method throws
ApiThrows(error) ==
    /\ githubCall.pc \in UploadMethods \cup {"repos.createForAuthenticatedUser",
                                              "repos.createOrUpdateFileContents"}
    /\ LET pc == githubCall.pc
           threw == [githubCall EXCEPT !.threw = pc]
       IN  CASE pc = "repos.createForAuthenticatedUser" ->
                    githubCall' =
                        [threw EXCEPT
                            !.pc = "returned",
                            !.result = createProjectRepository(
                                Result(FALSE, "", FALSE,
                                       createRepositoryError(error, githubCall.name)),
                                NoResult)]
             [] pc = "repos.createOrUpdateFileContents" ->
                    githubCall' = [githubCall EXCEPT !.pc = "setTimeout"]
             [] OTHER ->
                    githubCall' =
                        [threw EXCEPT
                            !.pc = "returned",
                            !.result = OperationResult(githubCall,
                                Result(FALSE, "", FALSE,
                                       uploadProjectFilesError(error, Owner,
                                                               githubCall.name)))]
    /\ apiCalls' = apiCalls
    /\ UNCHANGED <<githubOtherVars, currentRepo, connecting>>

\* the two seconds createProjectRepository waits are over: the upload begins
TimerFires ==
    /\ githubCall.pc = "setTimeout"
    /\ githubCall' = [githubCall EXCEPT !.pc = "repos.get"]
    /\ apiCalls' = Append(apiCalls, "repos.get")
    /\ UNCHANGED <<githubOtherVars, currentRepo, connecting>>

ConnectToRepository ==
    /\ ~connecting
    /\ connecting' = TRUE
    /\ UNCHANGED <<githubOtherVars, currentRepo, githubCall, apiCalls>>

\* getRepository returns to connectToRepository
GetRepositoryReturns(success) ==
    /\ connecting
    /\ connecting' = FALSE
    /\ currentRepo' = IF success THEN TRUE ELSE currentRepo
    /\ UNCHANGED <<githubOtherVars, githubCall, apiCalls>>

NextGitHub ==
    \/ \E name \in {"my-app"}, files \in 0..MaxUploadFiles : UploadProjectFiles(name, files)
    \/ \E files \in 0..MaxUploadFiles : SyncToRepository(files)
    \/ \E repoConfig \in RepoConfigs, files \in 0..MaxUploadFiles :
          CreateProjectRepository(repoConfig, files)
    \/ ApiReturns
    \/ \E error \in ApiErrors : ApiThrows(error)
    \/ TimerFires
    \/ ConnectToRepository
    \/ \E success \in BOOLEAN : GetRepositoryReturns(success)
    \/ Disconnect

SpecGitHub == InitGitHub /\ [][NextGitHub]_vars

(***************************************************************************)
(* ProjectContextProvider: setProjectType and its transition timer.  Every *)
(* timer has the same delay, so the timers fire in the order of the calls; *)
(* a call made while a timer is pending is a call made less than the delay *)
(* after it.                                                               *)
(***************************************************************************)
TransitionDelay == 300

MaxTransitions == 3

SessionIds == {"session_1", "session_2"}

\* setProjectType(type): the project state it sets and the timers then pending
setProjectType(state, pending, type) ==
    IF type = state.currentProjectType
    THEN [state |-> state, timers |-> pending]
    ELSE [state |-> [state EXCEPT !.isTransitioning = TRUE,
                                  !.lastSelected = state.currentProjectType],
          timers |-> Append(pending, type)]

\* the state once the provider has mounted: the stored state, the initial type or
\* the default, with a fresh session
InitProject ==
    /\ IntentIdle
    /\ CallsIdle
    /\ TemplateIdle
    /\ GeneratorIdle
    /\ ValidatorIdle
    /\ SyncIdle
    /\ ComponentIdle
    /\ PubspecIdle
    /\ GitHubIdle
    /\ \E type \in ProjectTypes, last \in ProjectTypes \cup {""}, id \in SessionIds :
          projectState = [defaultProjectState EXCEPT !.currentProjectType = type,
                                                     !.lastSelected = last,
                                                     !.sessionId = id]
    /\ transitions = << >>
    /\ lastType = ""

projectOtherVars ==
    <<prompt, manifest, intent, calls, template, config, rendered, generatorVars,
      validatorVars, syncVars, componentVars, pubspecVars, githubVars>>

SetProjectType(type) ==
    /\ LET set == setProjectType(projectState, transitions, type)
       IN  /\ Len(set.timers) <= MaxTransitions
           /\ projectState' = set.state
           /\ transitions' = set.timers
    /\ lastType' = type
    /\ UNCHANGED projectOtherVars

\* the oldest pending timer fires, TransitionDelay after its call
TransitionFires ==
    /\ transitions # << >>
    /\ \E id \in SessionIds :
          projectState' = [projectState EXCEPT !.currentProjectType = Head(transitions),
                                               !.isTransitioning = FALSE,
                                               !.sessionId = id]
    /\ transitions' = Tail(transitions)
    /\ UNCHANGED <<lastType, projectOtherVars>>

NextProject ==
    \/ \E type \in ProjectTypes : SetProjectType(type)
    \/ TransitionFires

SpecProject == InitProject /\ [][NextProject]_vars

(***************************************************************************)
(* Properties of analyzeEditIntent                                         *)
(***************************************************************************)
Analyzed == intent # NoIntent
Matched == Analyzed /\ intent.resolver # ""
ManifestKeys == Range(Paths(manifest))

\* the order of the pattern groups, by EditType
TableOrder == <<"CREATE_FLUTTER_WIDGET", "CREATE_FLUTTER_SCREEN", "UPDATE_FLUTTER_WIDGET",
                "ADD_FLUTTER_NAVIGATION", "ADD_FLUTTER_PACKAGE", "UPDATE_COMPONENT",
                "ADD_FEATURE", "FIX_ISSUE", "UPDATE_STYLE", "REFACTOR", "FULL_REBUILD",
                "ADD_DEPENDENCY">>
GroupOf(type) == patterns[CHOOSE g \in DOMAIN patterns : patterns[g].type = type]
TypeMatches(type, p) == groupMatches(GroupOf(type), toLowerCase(p))
MatchingTypes(p) == {k \in DOMAIN TableOrder : TypeMatches(TableOrder[k], p)}
Least(S) == CHOOSE k \in S : \A j \in S : k <= j

\* C1: the intent has the EditType of the first group, in the table order,
\* that has a regular expression matching the lower-cased prompt, and the
\* target files of that group's resolver, whichever later groups match too.
C1_FirstMatchingGroupWins ==
    Analyzed =>
        LET matching == MatchingTypes(prompt)
            type == TableOrder[Least(matching)]
        IN matching # {} =>
               /\ intent.type = type
               /\ intent.targetFiles =
                      fileResolver(GroupOf(type).fileResolver, prompt, manifest)

\* a later group matches as well, and the first one decided
C1_Witness ==
    /\ Analyzed
    /\ Cardinality(MatchingTypes(prompt)) >= 2
    /\ intent.type = "ADD_FLUTTER_PACKAGE"
    /\ TypeMatches("ADD_DEPENDENCY", prompt)

NoDartFiles == \A i \in DOMAIN manifest.files : ~endsWith(manifest.files[i].path, ".dart")

\* C2: "create a login screen with app bar" on a manifest without Dart files
\* gives type CREATE_FLUTTER_SCREEN and targetFiles = [manifest.entryPoint].
C2_LoginScreenIsScreenIntent ==
    (Analyzed /\ prompt = "create a login screen with app bar" /\ NoDartFiles) =>
        /\ intent.type = "CREATE_FLUTTER_SCREEN"
        /\ intent.targetFiles = <<manifest.entryPoint>>

\* C3: a prompt that matches no regular expression of any group gets the
\* default intent (UPDATE_COMPONENT, [entryPoint], 0.3, no context) and no
\* file resolver is called.
C3_DefaultIntent ==
    (Analyzed /\ MatchingTypes(prompt) = {}) =>
        /\ intent.type = "UPDATE_COMPONENT"
        /\ intent.targetFiles = <<manifest.entryPoint>>
        /\ intent.confidence = 3
        /\ intent.suggestedContext = << >>
        /\ intent.resolver = ""

C3_Witness ==
    /\ Analyzed
    /\ MatchingTypes(prompt) = {}
    /\ prompt = "hello it is broken"
    /\ Len(manifest.files) = MaxFiles

\* C4: no path occurs both in targetFiles and in suggestedContext.
C4_ContextExcludesTargets ==
    Analyzed => Range(intent.targetFiles) \cap Range(intent.suggestedContext) = {}

C4_Witness ==
    /\ Matched
    /\ Range(intent.targetFiles) \cap ManifestKeys # {}
    /\ intent.suggestedContext # << >>

\* C5 as stated: when a group matches, targetFiles and suggestedContext
\* together are exactly the keys of manifest.files.
C5_UnionIsManifest ==
    Matched => Range(intent.targetFiles) \cup Range(intent.suggestedContext) = ManifestKeys

\* C5 as amended: when a group matches, every key of manifest.files is in
\* targetFiles or suggestedContext, suggestedContext holds manifest keys
\* only, and a target file outside the manifest is manifest.entryPoint, a
\* path of manifest.styleFiles or the literal "pubspec.yaml".
C5_UnionCoversManifest ==
    Matched =>
        /\ ManifestKeys \subseteq Range(intent.targetFiles) \cup Range(intent.suggestedContext)
        /\ Range(intent.suggestedContext) \subseteq ManifestKeys
        /\ Range(intent.targetFiles) \ ManifestKeys
               \subseteq {manifest.entryPoint, "pubspec.yaml"} \cup Range(manifest.styleFiles)

\* the resolver proposes pubspec.yaml for a manifest that has none
C5_Witness ==
    /\ Matched
    /\ intent.type = "ADD_FLUTTER_PACKAGE"
    /\ intent.targetFiles = <<"pubspec.yaml">>
    /\ "pubspec.yaml" \notin ManifestKeys
    /\ Range(intent.suggestedContext) = ManifestKeys
    /\ ManifestKeys # {}

\* C6: for a matched prompt the confidence is
\* min(1.0, 0.5 + 0.2 [targets found] + 0.1 [more than 5 whitespace-separated
\* tokens] + 0.2 [a regular expression of the group matches]), the last term
\* always applying, and lies in [0, 1] (in tenths here).
C6_ConfidenceFormula ==
    Matched =>
        LET found == Len(intent.targetFiles) > 0 /\ intent.targetFiles[1] # ""
            long == whitespaceTokens(prompt) > 5
            hit == \E k \in DOMAIN GroupOf(intent.type).patterns :
                       RegexTest(GroupOf(intent.type).patterns[k], prompt)
        IN /\ hit
           /\ intent.confidence =
                  Min(10, 5 + (IF found THEN 2 ELSE 0) + (IF long THEN 1 ELSE 0)
                            + (IF hit THEN 2 ELSE 0))
           /\ intent.confidence \in 0..10

C8_ListBlockRenderedPerItem ==
    rendered.done =>
        \A f \in Frames, key \in BlockKeys, body \in Bodies :
            (/\ template = f[1] \o block(key, body) \o f[2]
             /\ Lookup(config, key).kind = "array"
             /\ replaceVariablesFrom(body, 1, config) = body)
            => rendered.text =
                   f[1] \o joinItems(body, Lookup(config, key).items, 1) \o f[2]

\* C9: a block whose config value is not a list is rendered as its body,
\* once and without the markers, when the value is truthy, and as the empty
\* string when the value is falsy or the key absent.  Stated for a block
\* between literal text and for a block inside a block that is kept.
C9_ConditionalBlock ==
    rendered.done =>
        /\ \A f \in Frames, key \in BlockKeys, body \in Bodies :
               (/\ template = f[1] \o block(key, body) \o f[2]
                /\ Lookup(config, key).kind # "array")
               => rendered.text =
                      f[1] \o (IF Truthy(Lookup(config, key))
                               THEN replaceVariablesFrom(body, 1, config)
                               ELSE "") \o f[2]
        /\ \A pre \in Prefixes, key \in BlockKeys, body \in Bodies :
               (/\ template = block(OuterKey, pre \o block(key, body))
                /\ Lookup(config, OuterKey).kind # "array"
                /\ Truthy(Lookup(config, OuterKey))
                /\ Lookup(config, key).kind # "array")
               => rendered.text =
                      pre \o (IF Truthy(Lookup(config, key))
                              THEN replaceVariablesFrom(body, 1, config)
                              ELSE "")

\* the item defines the field
Defines(item, field) == \E k \in DOMAIN item : item[k][1] = field

\* every block of the template is closed, and the config defines the key of
\* every placeholder and of every block marker, a placeholder inside a list
\* block being defined as well when every item of the list defines it
FullySpecified ==
    \A i \in 1..Len(template) :
        /\ startsWithAt(template, "{{#", i) => blockAt(template, i).end # 0
        /\ variableEnd(template, i) # 0 =>
            LET key == trim(SubSeq(template, i + 2, variableEnd(template, i) - 1))
            IN IF CharAt(key, 1) \in {"#", "/"}
               THEN Lookup(config, trim(Tail(key))).kind # "undefined"
               ELSE \/ Lookup(config, key).kind # "undefined"
                    \/ \E j \in 1..(i - 1) :
                           LET b == blockAt(template, j)
                               list == Lookup(config, trim(b.key))
                           IN /\ b.end >= i
                              /\ list.kind = "array"
                              /\ \A n \in DOMAIN list.items : Defines(list.items[n], key)

\* C10: rendering a template with a config that defines every key the
\* template uses, the fields of list items included, leaves no {{...}}
\* token in the output.
C10_NoResidualToken ==
    (rendered.done /\ FullySpecified) =>
        \A i \in 1..Len(rendered.text) : variableEnd(rendered.text, i) = 0

(***************************************************************************)
(* Properties of the generate operations                                   *)
(***************************************************************************)
FromPrompt == generation.operation = "generateFlutterCodeFromPrompt"
AllTemplatesReadable == DOMAIN templateFiles = TemplateNames

\* C11: generateFlutterCodeFromPrompt called with a project type other than
\* FLUTTER_MOBILE throws its explicit error before any template is loaded
\* and returns no output.
C11_OtherProjectTypeRejected ==
    (FromPrompt /\ generation.projectType # "FLUTTER_MOBILE")
    => /\ generation.outcome.threw
       /\ generation.outcome.error
            = "Flutter code generation is only supported for Flutter mobile projects"
       /\ generation.outcome.loaded = << >>
       /\ generation.outcome.text = ""
       /\ DOMAIN generation.outcome.files = {}

C11_Witness ==
    /\ FromPrompt
    /\ generation.projectType = "REACT_WEB"
    /\ generation.prompt = "create a login screen with app bar"
    /\ AllTemplatesReadable
    /\ generation.outcome.threw

\* the templates each operation asks loadTemplate for, in the order of its
\* statements
OperationTemplates ==
    ("generateMainDart" :> <<"main.dart.template">>)
    @@ ("generatePubspecYaml" :> <<"pubspec.yaml.template">>)
    @@ ("generateStatelessWidget" :> <<"stateless-widget.template">>)
    @@ ("generateStatefulWidget" :> <<"stateful-widget.template">>)
    @@ ("generateScreen" :> <<"screen.template">>)
    @@ ("generateFlutterProject" :>
          <<"main.dart.template", "pubspec.yaml.template", "screen.template">>)

\* C12: a generate operation one of whose templates cannot be loaded throws
\* 'Template not found: <name>' naming a template that is missing, and
\* returns neither text nor, for generateFlutterProject, a file map.
C12_MissingTemplateFails ==
    \A operation \in DOMAIN OperationTemplates :
        LET missing == Range(OperationTemplates[operation]) \ DOMAIN templateFiles
        IN (generation.operation = operation /\ missing # {})
           => /\ generation.outcome.threw
              /\ \E name \in missing :
                    generation.outcome.error = "Template not found: " \o name
              /\ generation.outcome.text = ""
              /\ DOMAIN generation.outcome.files = {}

C12_Witness ==
    /\ generation.operation = "generateFlutterProject"
    /\ DOMAIN templateFiles = TemplateNames \ {"screen.template"}
    /\ generation.outcome.threw
    /\ generation.outcome.loaded
         = <<"main.dart.template", "pubspec.yaml.template", "screen.template">>

\* C13: for a Flutter project the prompt takes exactly one path, chosen by
\* substring tests on the lower-cased prompt in this order: the screen path
\* for "screen" or "page", else the widget path for "widget" or
\* "component", else the project path for "project" or "app", else a
\* stateless widget named GeneratedWidget whose body holds the prompt text.
C13_PathByPriority ==
    (FromPrompt /\ generation.projectType = "FLUTTER_MOBILE")
    => LET lower == toLowerCase(generation.prompt)
           has(word) == includes(lower, word)
           loaded == generation.outcome.loaded
           text == generation.outcome.text
           fromLine == "Text('Generated from: " \o generation.prompt \o "')"
       IN IF has("screen") \/ has("page") THEN loaded = <<"screen.template">>
          ELSE IF has("widget") \/ has("component")
               THEN /\ loaded \in {<<"stateful-widget.template">>,
                                   <<"stateless-widget.template">>}
                    /\ ~includes(text, "Generated from: ")
          ELSE IF has("project") \/ has("app")
               THEN loaded[1] = "main.dart.template"
          ELSE /\ loaded = <<"stateless-widget.template">>
               /\ ~generation.outcome.threw
                    => /\ includes(text, "class GeneratedWidget ")
                       /\ includes(text, fromLine)

C13_Witness ==
    /\ FromPrompt
    /\ generation.projectType = "FLUTTER_MOBILE"
    /\ generation.prompt = "Screen widget app"
    /\ AllTemplatesReadable
    /\ ~generation.outcome.threw
    /\ generation.outcome.loaded = <<"screen.template">>

(***************************************************************************)
(* Properties of the DartValidator                                         *)
(***************************************************************************)
Validation == dartResult.operation = "validateDartCode"
HasError(code) ==
    \E k \in DOMAIN dartResult.value.errors : dartResult.value.errors[k].code = code

\* C14: the result of validateDartCode has isValid = true exactly when its
\* errors list is empty, whatever its warnings are.
C14_ValidIffNoErrors ==
    Validation => (dartResult.value.isValid <=> dartResult.value.errors = << >>)

C14_Witness ==
    /\ Validation
    /\ dartResult.value.warnings # << >>
    /\ dartResult.value.errors = << >>
    /\ dartResult.value.isValid

\* C15: validateDartCode returns isValid = true and no errors for every code
\* that contains the import of package:flutter/material.dart, a class
\* extending StatelessWidget and a build(BuildContext) method; stated for
\* the sources of one such class whose build body is well-formed Dart.
C15_WidgetSourceIsValid ==
    (/\ Validation
     /\ \E import \in ImportLines \ {<< >>}, body \in ValidBodies :
           dartCode = joinLines(import \o ClassLines("Home", "StatelessWidget", body))
     /\ includes(dartCode, "import 'package:flutter/material.dart'")
     /\ includes(dartCode, " extends StatelessWidget")
     /\ includes(dartCode, " build(BuildContext "))
    => dartResult.value.isValid /\ dartResult.value.errors = << >>

\* a class of the sources: it extends StatelessWidget or State<...> and
\* none of its lines is the build signature
WidgetClassWithoutBuild(classLines) ==
    /\ \E k \in DOMAIN classLines :
          \/ includes(classLines[k], " extends StatelessWidget")
          \/ includes(classLines[k], " extends State<")
    /\ ~\E k \in DOMAIN classLines :
          includes(classLines[k], "Widget build(BuildContext context)")

\* C16: validateDartCode reports missing_build_method whenever some class of
\* the code extends StatelessWidget or State<...> and has no
\* 'Widget build(BuildContext context)', whatever the other classes hold.
C16_EveryWidgetClassNeedsBuild ==
    Validation =>
        \A import \in ImportLines, first \in FirstClasses, second \in SecondClasses :
            (/\ dartCode = joinLines(import \o first \o second)
             /\ WidgetClassWithoutBuild(first) \/ WidgetClassWithoutBuild(second))
            => HasError("missing_build_method") /\ ~dartResult.value.isValid

\* C17: validateDartCode reports missing_semicolon at line i exactly when
\* line i is neither blank nor a comment, starts a statement, does not end
\* in ';' and does not end in '{', '=>' or '('.
C17_MissingSemicolonExactly ==
    Validation =>
        LET lines == splitLines(dartCode)
            trimmed(i) == trim(lines[i])
            reported(i) ==
                \E k \in DOMAIN dartResult.value.errors :
                    /\ dartResult.value.errors[k].code = "missing_semicolon"
                    /\ dartResult.value.errors[k].line = i
        IN \A i \in DOMAIN lines :
              reported(i)
              <=> /\ trimmed(i) # ""
                  /\ ~startsWithAt(trimmed(i), "//", 1) /\ ~startsWithAt(trimmed(i), "/*", 1)
                  /\ startsStatement(trimmed(i))
                  /\ ~endsWith(trimmed(i), ";")
                  /\ ~endsWith(trimmed(i), "{") /\ ~endsWith(trimmed(i), "=>")
                  /\ ~endsWith(trimmed(i), "(")

\* the occurrences of the decision tokens in the code: the keywords as
\* whole words, the operators wherever they stand
tokenOccurrences(code) ==
    LET keywords == {"if", "else", "for", "while", "case", "catch"}
        operators == {"&&", "||", "?"}
    IN Cardinality({<<i, w>> \in (1..Len(code)) \X keywords :
                       MatchSeq(<<Wb, Lit(w), Wb>>, 1, code, i) # {}})
       + Cardinality({<<i, o>> \in (1..Len(code)) \X operators : startsWithAt(code, o, i)})

\* C18: analyzeComplexity returns cyclomaticComplexity = 1 + the number of
\* occurrences of if, else, for, while, case, catch, &&, || and ? in the
\* code, each counted however it is surrounded.
C18_ComplexityCountsEveryToken ==
    dartResult.operation = "analyzeComplexity"
    => dartResult.value.cyclomaticComplexity = 1 + tokenOccurrences(dartCode)

\* C19: for the error code unnecessary_brace_in_string_interps getQuickFixes
\* returns one suggestion, the line with every ${identifier} replaced by
\* $identifier and nothing else changed.
C19_BracesStripped ==
    (/\ dartResult.operation = "getQuickFixes"
     /\ dartResult.error = "unnecessary_brace_in_string_interps"
     /\ \E i \in 1..Len(dartCode) : interpolationEnd(dartCode, i) # 0)
    => dartResult.value = <<replaceInterpolationsFrom(dartCode, 1, "$$$1")>>

(***************************************************************************)
(* Properties of the GitHubAutoSync                                        *)
(***************************************************************************)
\* C20: on a GitHubAutoSync that has the default configuration, once the
\* caller has reported changes of n distinct file paths (n <= 10) and no
\* sync has been made, getStatus().pendingChanges is n.
C20_ReportedChangesArePending ==
    (/\ autoSyncConfig = DefaultAutoSyncConfig
     /\ syncHistory = << >>
     /\ inFlight = EmptyBag
     /\ reportedFiles <= PendingLimit)
    => getStatus.pendingChanges = reportedFiles

\* C21: in every reachable state the number of sync attempts of the last
\* hour, getStatus().syncCount, is at most config.maxCommitsPerHour.
C21_SyncCountWithinLimit == getStatus.syncCount <= autoSyncConfig.maxCommitsPerHour

\* C25: while auto-sync is running the interval timer ticks at the interval
\* of the config: updateConfig with another interval has stopped the timer
\* and started one with the new interval.
C25_TimerFollowsInterval ==
    isRunning => \A id \in DOMAIN timers : timers[id].interval = autoSyncConfig.interval

\* C28: a change recorded while a sync is in flight, after that sync read
\* the sandbox files, is still in pendingChanges when the sync completes
\* successfully.
C28_NoChangeDroppedUnsynced ==
    [][\A call \in BagToSet(inFlight), result \in UploadResults :
         (autoSyncConfig.enabled /\ result.success /\ SyncReturns(call, result)) =>
             \A path \in DOMAIN pendingChanges \ DOMAIN call.files :
                 path \in DOMAIN pendingChanges']_vars

\* C29: at most one interval timer is active, isRunning (getStatus().enabled)
\* is true exactly when one is, and a start call made while running or while
\* no repository is connected returns success = false and sets no timer.
C29_OneTimerWhileRunning ==
    /\ Cardinality(DOMAIN timers) <= 1
    /\ getStatus.enabled = isRunning
    /\ isRunning <=> DOMAIN timers # {}
    /\ isRunning => DOMAIN timers = {intervalId}
    /\ (isRunning \/ ~currentRepo) =>
           LET started == start(TimerState, autoSyncConfig)
           IN ~started.result.success /\ started.state = TimerState

\* start, updateConfig with another interval and disconnect have been called
C29_Witness ==
    /\ isRunning
    /\ ~currentRepo
    /\ autoSyncConfig.interval # timers[intervalId].interval

AssetsOf(i) == flutters[pubspecs[i]].assets

\* C23: after any sequence of addAsset calls on a pubspec whose flutter.assets
\* had no duplicates, flutter.assets contains every path that was added and
\* no path more than once, and a call that adds a path already in the list
\* leaves the list as it was.
C23_AssetsAddedOnce ==
    /\ [](\A i \in DOMAIN pubspecs :
            pubspecs[i] # 0 =>
                /\ \A j, k \in DOMAIN AssetsOf(i) : AssetsOf(i)[j] = AssetsOf(i)[k] => j = k
                /\ \A assetPath \in addedAssets : \E k \in DOMAIN AssetsOf(i) : AssetsOf(i)[k] = assetPath)
    /\ [][\A i \in DOMAIN pubspecs, assetPath \in AssetPaths :
            (/\ AddAsset(i, assetPath)
             /\ pubspecs[i] # 0
             /\ \E k \in DOMAIN AssetsOf(i) : AssetsOf(i)[k] = assetPath)
            => flutters'[pubspecs'[Len(pubspecs')]].assets = AssetsOf(i)]_vars

\* the same path has been added twice to a pubspec that had no flutter field
C23_Witness ==
    /\ pubspecs = <<1, 1, 1>>
    /\ Cardinality(addedAssets) = 1
    /\ Len(flutters[1].assets) = 1

(***************************************************************************)
(* Properties of GitHubIntegration and GitHubSync                          *)
(***************************************************************************)
\* the octokit methods uploadProjectFiles has called: the log from its repos.get on
uploadLog ==
    LET starts == {k \in DOMAIN apiCalls : apiCalls[k] = "repos.get"}
    IN  IF starts = {} THEN << >>
        ELSE SubSeq(apiCalls, CHOOSE k \in starts : \A l \in starts : k <= l, Len(apiCalls))

\* C27: in uploadProjectFiles the branch reference is updated at most once per
\* call, and only after a blob has been created for every file, then the tree,
\* then the commit; when an earlier step fails the reference is never updated
\* and the call returns success = false.
C27_RefUpdatedLast ==
    LET refs == {k \in DOMAIN uploadLog : uploadLog[k] = "git.updateRef"}
    IN  /\ Cardinality(refs) <= 1
        /\ \A k \in refs :
              /\ githubCall.blobs = githubCall.files
              /\ SubSeq(uploadLog, 1, k - 1) =
                    <<"repos.get", "git.getRef">>
                    \o [i \in 1..githubCall.files |-> "git.createBlob"]
                    \o <<"git.createTree", "git.createCommit">>
        /\ (githubCall.pc = "returned" /\ githubCall.threw \in UploadMethods) =>
              /\ ~githubCall.result.success
              /\ githubCall.threw # "git.updateRef" => refs = {}

\* an upload of two files has moved the branch and returned success
C27_Witness ==
    /\ githubCall.operation = "uploadProjectFiles"
    /\ githubCall.pc = "returned"
    /\ githubCall.files = MaxUploadFiles
    /\ githubCall.result.success
    /\ apiCalls[Len(apiCalls)] = "git.updateRef"

\* C22: createProjectRepository returns success = true only if both the
\* repository creation and the file upload succeeded; when the creation fails
\* no upload is attempted and the result has success = false and no repo; when
\* the creation succeeds and the upload fails the result has success = false,
\* carries the created repo, and its error says that the repository was created
\* but the file upload failed.
C22_ProjectRepositoryResult ==
    githubCall.operation = "createProjectRepository" =>
        LET result == githubCall.result
            created == /\ "repos.createForAuthenticatedUser" \in Range(apiCalls)
                       /\ githubCall.threw # "repos.createForAuthenticatedUser"
                       /\ githubCall.pc # "repos.createForAuthenticatedUser"
            uploaded == /\ uploadLog # << >>
                        /\ uploadLog[Len(uploadLog)] = "git.updateRef"
                        /\ githubCall.threw = ""
                        /\ githubCall.pc = "returned"
        IN  /\ ~created => uploadLog = << >>
            /\ githubCall.pc = "returned" =>
                  /\ result.success => created /\ uploaded
                  /\ ~created => ~result.success /\ result.repo = ""
                  /\ (created /\ ~uploaded) =>
                        /\ ~result.success
                        /\ result.repo = Owner \o "/" \o githubCall.name
                        /\ startsWithAt(result.error,
                                        "Repository created but file upload failed", 1)

\* the repository was created and the upload of its files then failed
C22_Witness ==
    /\ githubCall.operation = "createProjectRepository"
    /\ githubCall.pc = "returned"
    /\ githubCall.threw = "git.createTree"
    /\ githubCall.result.repo = "testuser/my-app"
    /\ githubCall.result.error =
          "Repository created but file upload failed: Insufficient permissions to write to repository"

\* C24: while no repository is connected (initially, after a connectToRepository
\* that failed with no earlier connection, or after disconnect) a call of
\* syncToRepository returns success = false with the 'No repository connected'
\* error, calls no octokit method, and leaves the connection state as it was.
\* The statement is about calls made while disconnected, as the claim spells
\* out; a failed connectToRepository and disconnect leave no repository connected.
C24_NoSyncWhileDisconnected ==
    /\ [][\A files \in 0..MaxUploadFiles :
            (~currentRepo /\ SyncToRepository(files)) =>
                /\ githubCall'.pc = "returned"
                /\ ~githubCall'.result.success
                /\ includes(githubCall'.result.error, "No repository connected")
                /\ apiCalls' = << >>
                /\ currentRepo' = currentRepo]_vars
    /\ [][(~currentRepo /\ GetRepositoryReturns(FALSE)) => ~currentRepo']_vars
    /\ [][Disconnect => ~currentRepo']_vars
    /\ [](githubCall.operation = "syncToRepository" /\ githubCall.pc = "returned"
          /\ githubCall.result.error = NotConnectedError => apiCalls = << >>)

\* syncToRepository has returned the error and no repository is connected
C24_Witness ==
    /\ ~currentRepo
    /\ ~connecting
    /\ githubCall.operation = "syncToRepository"
    /\ githubCall.pc = "returned"
    /\ githubCall.result = Result(FALSE, "", FALSE, NotConnectedError)
    /\ apiCalls = << >>

(***************************************************************************)
(* Properties of setProjectType                                            *)
(***************************************************************************)
\* C30: after any sequence of setProjectType calls, including calls made less
\* than 300 ms apart, once every pending transition timer has fired the project
\* state has isTransitioning = false and currentProjectType equal to the type
\* passed to the last call.
C30_LastTypeWins ==
    (lastType # "" /\ transitions = << >>) =>
        /\ ~projectState.isTransitioning
        /\ projectState.currentProjectType = lastType

====
